---- MODULE Spec2Model ----
(***************************************************************************)
(* CopilotMonitor: workspace / session / thread orchestration.             *)
(*                                                                         *)
(* Three layers of the repository are modelled:                            *)
(*   - the Copilot SDK service (copilot-sdk.ts): the map of workspace      *)
(*     clients, their sessions, and the async functions that connect,      *)
(*     disconnect, create, resume and destroy, cut at every await;         *)
(*   - the Copilot backend adapter (copilot-backend.ts): transformEvent    *)
(*     and the commands that emit canonical events;                        *)
(*   - the useThreads hook: review-exit handling, history merge-on-load    *)
(*     and the debounced history save.                                     *)
(* The reducer that applies canonical events to thread state is not part   *)
(* of the sources at hand; it is modelled from the written specification   *)
(* (section 4.3) and marked as such where it is defined.                   *)
(***************************************************************************)
EXTENDS Integers, Sequences, FiniteSets, TLC

\* ------------------------------------------------------------------ bounds
MaxCalls == 2        \* async SDK calls that may be in flight together
MaxClients == 2      \* CopilotClient objects constructed in one run
MaxHandles == 2      \* CopilotSession objects handed out in one run

\* ------------------------------------------------------------- identities
WorkspaceIds == {"W"}
PersistedSessionIds == {"s1"}      \* sessions the backend holds from earlier runs
NewSessionId(h) == "n" \o ToString(h)
SessionIds == PersistedSessionIds \cup {NewSessionId(h) : h \in 1..MaxHandles}
ThreadIds == SessionIds \cup WorkspaceIds
NoId == "none"
NoTimestamp == -1

VARIABLES
  workspaceClients,   \* workspaceId -> workspace object (0: not in the map)
  wsClient,           \* workspace object -> state of its CopilotClient
  wsSession,          \* workspace object -> its .session handle (0: null)
  sessions,           \* session handle -> [sid, client, live, subs]
  calls,              \* call slot -> the async call suspended there
  lastDone,           \* the async call that returned or threw last
  backendLog,         \* session id -> the item log the backend holds for it
  itemsByThread,      \* thread id -> the local item log
  threadStatusById,   \* thread id -> [isProcessing, isReviewing]
  activeTurnIdByThread, \* thread id -> turn id (NoId: null)
  threadParentById,   \* thread id -> parent thread id (NoId: none)
  activeThreadIdByWorkspace, \* workspace id -> selected thread (NoId: null)
  unreadByThread,     \* thread id -> has unread activity
  detachedReviewNoticeRef, \* the "parent->review" keys already notified
  now,                \* Date.now()
  lastSend,           \* how the last sendUserMessage call ended
  reviewExits,        \* the detached reviews whose exit has been handled
  threadActivity,     \* thread id -> the timestamp of its last recorded activity
  threadsByWorkspace, \* workspace id -> the live thread list (no key: no entry)
  persisted,          \* the snapshot loadThreadHistory finds on disk
  historyLoadedRef,   \* the workspaces whose history load has been started
  loadedThreadsRef,   \* the threads marked as loaded
  historyLoad,        \* the history load in flight, with the closure it holds
  historySaveTimers,  \* the pending save timers, each with the closure it holds
  historySaveTimerRef, \* the timer historySaveTimerRef.current names (a set of at most one)
  lastSavedHistoryRef, \* workspace id -> the serialized snapshot written last
  writes,             \* workspace id -> saveThreadHistory calls issued
  written,            \* workspace id -> the snapshot of the last such call
  globalEventCallback, \* whether copilot-sdk's global event callback is set
  received,           \* the native events delivered so far, in order
  emitted,            \* the canonical events emitted so far, each with the index of its native event
  native,             \* the native event handed to transformEvent, with its workspace id
  canonical,          \* what transformEvent returned for it
  globalPermissionCallback, \* whether copilot-sdk's global permission callback is set
  permissionAnswers,  \* request id -> the results returned to the backend, in order
  approvals,          \* the approval requests shown to the user (state.approvals)
  approvalAllowlist,  \* the request kinds the user chose to remember
  approvalDecisions,  \* the request ids the user has decided
  pinnedThreads,      \* the threads the user has pinned
  archives,           \* thread id -> the state of the backend archive requested for it
  smokePc,            \* where main() of scripts/acp-smoke.mjs stands
  sentIds,            \* the ids of the requests written to the agent's stdin, in order
  pendingById,        \* String(id) -> the response received with that id
  notifications,      \* the inbound messages recorded as notifications, in order
  transcript,         \* the non-empty stdout lines of the agent, in order
  chunksRead,         \* the number of chunks a stream has emitted so far
  streamRead,         \* the characters a stream has emitted so far, all chunks joined
  buffer,             \* readLines' buffer: what it has read and not yet cut into lines
  delivered           \* the lines readLines has passed to onLine, in order

sdkVars == <<workspaceClients, wsClient, wsSession, sessions, calls, lastDone>>
threadVars == <<itemsByThread, threadStatusById, activeTurnIdByThread, threadParentById,
                activeThreadIdByWorkspace, unreadByThread, detachedReviewNoticeRef,
                now, lastSend, reviewExits, threadActivity>>
historyVars == <<threadsByWorkspace, persisted, historyLoadedRef, loadedThreadsRef,
                 historyLoad, historySaveTimers, historySaveTimerRef,
                 lastSavedHistoryRef, writes, written>>
routeVars == <<globalEventCallback, received, emitted>>
translateVars == <<native, canonical>>
permissionVars == <<globalPermissionCallback, permissionAnswers, approvals,
                    approvalAllowlist, approvalDecisions>>
removalVars == <<pinnedThreads, archives>>
smokeVars == <<smokePc, sentIds, pendingById, notifications, transcript>>
readerVars == <<chunksRead, streamRead, buffer, delivered>>
adapterVars == <<routeVars, translateVars, permissionVars, removalVars, smokeVars, readerVars>>
nonSdkVars == <<backendLog, adapterVars, threadVars, historyVars>>
vars == <<sdkVars, backendLog, adapterVars, threadVars, historyVars>>

Clients == 1..MaxClients
Handles == 1..MaxHandles
CallIds == 1..MaxCalls

IdleCall == [op |-> "none", pc |-> "idle", ws |-> 0, h |-> 0, sid |-> NoId]
NoSession == [sid |-> NoId, client |-> 0, live |-> FALSE, subs |-> 0]
NothingDone == [op |-> "none", sid |-> NoId, ok |-> TRUE]

\* =====================================================================
\* The Copilot backend adapter: native SDK events to canonical events.
\* =====================================================================
Undefined == "undefined"

\* A native SessionEvent; Undefined marks an absent id or an absent field of
\* the data payload, hasData = FALSE an absent payload.
NoData ==
  [deltaContent |-> Undefined, content |-> Undefined, message |-> Undefined,
   errorType |-> Undefined, toolCallId |-> Undefined, toolName |-> Undefined,
   arguments |-> Undefined, success |-> Undefined, resultContent |-> Undefined,
   errorMessage |-> Undefined]
NativeEvent(type, id) == [type |-> type, id |-> id, hasData |-> TRUE, data |-> NoData]

\* a ?? b
Coalesce(a, b) == IF a = Undefined THEN b ELSE a

mapsAllToError(event) == "error"
mapEventToMethod(event) ==
  CASE event.type = "session.idle" -> "turn/completed"
    [] event.type = "session.error" -> "error"
    [] event.type = "assistant.message" -> "item/completed"
    [] event.type = "assistant.message_delta" -> "item/agentMessage/delta"
    [] event.type = "tool.execution_start" -> "item/started"
    [] event.type = "tool.execution_complete" -> "item/completed"
    [] event.type = "assistant.reasoning" -> "item/reasoning/textDelta"
    [] event.type = "assistant.reasoning_delta" -> "item/reasoning/textDelta"
    [] event.type = "assistant.turn_start" -> "turn/started"
    [] event.type = "assistant.turn_end" -> "turn/completed"
    [] OTHER -> Undefined

\* Reading a property of an undefined payload throws a TypeError.
Thrown == [workspace_id |-> Undefined, method |-> "TypeError", params |-> NoData]
ReadsData(type) ==
  type \in {"assistant.message_delta", "assistant.message", "session.error",
            "tool.execution_start", "tool.execution_complete",
            "assistant.reasoning", "assistant.reasoning_delta"}

TurnParamsCurrent(workspaceId, turnId) ==
  [threadId |-> workspaceId, turn |-> [id |-> "current", threadId |-> workspaceId]]
TurnParams(workspaceId, turnId) ==
  [threadId |-> workspaceId, turn |-> [id |-> turnId, threadId |-> workspaceId]]

transformParams(workspaceId, event) ==
  LET data == event.data IN
  CASE event.type = "assistant.message_delta" ->
         [threadId |-> workspaceId,
          itemId |-> Coalesce(event.id, "current"),
          delta |-> Coalesce(data.deltaContent, "")]
    [] event.type = "assistant.message" ->
         [threadId |-> workspaceId,
          item |-> [id |-> Coalesce(event.id, "current"),
                    type |-> "agentMessage",
                    text |-> Coalesce(data.content, "")]]
    [] event.type = "session.idle" -> TurnParams(workspaceId, "current")
    [] event.type = "session.error" ->
         [threadId |-> workspaceId,
          turnId |-> "current",
          error |-> [message |-> Coalesce(data.message, "Unknown error"),
                     code |-> data.errorType],
          willRetry |-> FALSE]
    [] event.type = "tool.execution_start" ->
         [threadId |-> workspaceId,
          item |-> [id |-> Coalesce(data.toolCallId, "tool"),
                    type |-> "tool",
                    toolType |-> Coalesce(data.toolName, "unknown"),
                    status |-> "running",
                    arguments |-> data.arguments]]
    [] event.type = "tool.execution_complete" ->
         [threadId |-> workspaceId,
          item |-> [id |-> Coalesce(data.toolCallId, "tool"),
                    type |-> "tool",
                    toolType |-> "unknown",
                    status |-> IF data.success = "true" THEN "completed" ELSE "error",
                    output |-> Coalesce(data.resultContent,
                                        Coalesce(data.errorMessage, ""))]]
    [] event.type \in {"assistant.reasoning", "assistant.reasoning_delta"} ->
         [threadId |-> workspaceId,
          itemId |-> "reasoning",
          delta |-> IF data.deltaContent # Undefined
                    THEN data.deltaContent
                    ELSE Coalesce(data.content, "")]
    [] event.type \in {"assistant.turn_start", "assistant.turn_end"} ->
         TurnParams(workspaceId, Coalesce(event.id, "current"))
    [] OTHER -> IF event.hasData THEN data ELSE NoData

transformEvent(workspaceId, event) ==
  IF mapEventToMethod(event) = Undefined
  THEN [workspace_id |-> workspaceId,
        method |-> "copilot/" \o event.type,
        params |-> IF event.hasData THEN event.data ELSE NoData]
  ELSE IF ReadsData(event.type) /\ ~event.hasData
       THEN Thrown
       ELSE [workspace_id |-> workspaceId,
             method |-> mapEventToMethod(event),
             params |-> transformParams(workspaceId, event)]

\* Permission requests of the backend: tool call ids and request kinds.
PermissionIds == {"call1", "call2", "call3"}
PermissionKinds == {"shell", "write", "read"}

NoPermissions ==
  /\ permissionAnswers = [id \in PermissionIds |-> <<>>]
  /\ approvals = {}
  /\ approvalAllowlist = {}
  /\ approvalDecisions = {}

NothingRemoved ==
  /\ pinnedThreads = {}
  /\ archives = [t \in {"s1", "n1"} |-> "none"]

\* scripts/acp-smoke.mjs before main() runs: nothing sent, nothing received.
IdKeys == {"0", "1", "2", "3"}
NoMsgId == [t |-> "absent", v |-> 0]
NoResponse == [type |-> "undefined", id |-> NoMsgId, method |-> Undefined, body |-> "none"]
\* readLines(stream, onLine) before the stream's first chunk.
NothingRead ==
  /\ chunksRead = 0
  /\ streamRead = <<>>
  /\ buffer = <<>>
  /\ delivered = <<>>

SmokeNotStarted ==
  /\ smokePc = "start"
  /\ sentIds = <<>>
  /\ pendingById = [key \in IdKeys |-> NoResponse]
  /\ notifications = <<>>
  /\ transcript = <<>>

\* Before any event has been handed to transformEvent.
NoNative == [workspaceId |-> NoId, event |-> NativeEvent("none", Undefined)]
NotTranslated == [workspace_id |-> Undefined, method |-> "none", params |-> NoData]

InitAdapterState(registered) ==
  /\ globalEventCallback = registered
  /\ received = <<>>
  /\ emitted = <<>>
  /\ native = NoNative
  /\ canonical = NotTranslated
  /\ globalPermissionCallback = registered
  /\ NoPermissions
  /\ NothingRemoved
  /\ SmokeNotStarted
  /\ NothingRead

\* sendUserMessage's own event: turn/started for the thread it is given.
TurnStartedEvent(workspaceId, threadId, turnId) ==
  [workspace_id |-> workspaceId,
   method |-> "turn/started",
   params |-> [threadId |-> threadId, turn |-> [id |-> turnId, threadId |-> threadId]]]

\* =====================================================================
\* The thread state machine: canonical events applied to thread state.
\* =====================================================================
Idle == [isProcessing |-> FALSE, isReviewing |-> FALSE]

\* A map with no key, and a thread history snapshot that is absent (null).
EmptyMap == [x \in {} |-> NoId]
NoSnapshot ==
  [version |-> 0, workspaceId |-> NoId, activeThreadId |-> NoId, threads |-> <<>>,
   itemsByThread |-> EmptyMap, threadParentById |-> EmptyMap, savedAt |-> 0]

\* The state slices a closure of the hook holds: applyThreadHistory and
\* buildThreadHistorySnapshot read them as they were at the render that made
\* the closure.
Closure(threads, items, parents, active) ==
  [threadsByWorkspace |-> threads, itemsByThread |-> items,
   threadParentById |-> parents, activeThreadIdByWorkspace |-> active]

InitHistoryState ==
  /\ threadsByWorkspace = EmptyMap
  /\ historyLoadedRef = {}
  /\ loadedThreadsRef = {}
  /\ historyLoad = [pc |-> "idle", closure |-> Closure(EmptyMap, EmptyMap, EmptyMap, EmptyMap)]
  /\ historySaveTimers = {}
  /\ historySaveTimerRef = {}
  /\ lastSavedHistoryRef = [w \in WorkspaceIds |-> <<>>]
  /\ writes = [w \in WorkspaceIds |-> 0]
  /\ written = [w \in WorkspaceIds |-> NoSnapshot]

InitThreadState ==
  /\ itemsByThread = [t \in ThreadIds |-> <<>>]
  /\ threadStatusById = [t \in ThreadIds |-> Idle]
  /\ activeTurnIdByThread = [t \in ThreadIds |-> NoId]
  /\ threadParentById = [t \in ThreadIds |-> NoId]
  /\ activeThreadIdByWorkspace = [w \in WorkspaceIds |-> NoId]
  /\ unreadByThread = [t \in ThreadIds |-> FALSE]
  /\ detachedReviewNoticeRef = {}
  /\ now = 0
  /\ lastSend = "none"
  /\ reviewExits = {}
  /\ threadActivity = [t \in ThreadIds |-> NoTimestamp]

\* markProcessing, markReviewing, setActiveTurnId (useThreadStatus).
markProcessing(status, threadId, flag) ==
  [status EXCEPT ![threadId].isProcessing = flag]
markReviewing(status, threadId, flag) ==
  [status EXCEPT ![threadId].isReviewing = flag]
setActiveTurnId(turns, threadId, turnId) ==
  [turns EXCEPT ![threadId] = turnId]

\* Section 4.3: turn/started sets Processing and the active turn;
\* turn/completed and error clear Processing, Reviewing and the active turn.
EventThread(ev) == ev.params.threadId
IsTerminal(ev) == ev.method \in {"turn/completed", "error"}

StatusAfter(status, ev) ==
  CASE ev.method = "turn/started" -> markProcessing(status, EventThread(ev), TRUE)
    [] IsTerminal(ev) ->
         markReviewing(markProcessing(status, EventThread(ev), FALSE), EventThread(ev), FALSE)
    [] OTHER -> status

TurnsAfter(turns, ev) ==
  CASE ev.method = "turn/started" -> setActiveTurnId(turns, EventThread(ev), ev.params.turn.id)
    [] IsTerminal(ev) -> setActiveTurnId(turns, EventThread(ev), NoId)
    [] OTHER -> turns

\* Section 4.3: item events update the item with the same id in place, or
\* append it when the id is new.
Item(id, kind, text) == [id |-> id, kind |-> kind, text |-> text]
HasItem(log, id) == \E i \in 1..Len(log) : log[i].id = id
UpsertItem(log, item) ==
  IF HasItem(log, item.id)
  THEN [i \in 1..Len(log) |-> IF log[i].id = item.id THEN item ELSE log[i]]
  ELSE Append(log, item)

ItemsAfter(items, ev) ==
  IF ev.method \in {"item/started", "item/completed"}
  THEN [items EXCEPT ![EventThread(ev)] =
          UpsertItem(@, Item(ev.params.item.id, ev.params.item.type,
                             IF ev.params.item.type = "agentMessage"
                             THEN ev.params.item.text ELSE ""))]
  ELSE items

\* dispatch({type: "addAssistantMessage", threadId, text})
addAssistantMessage(items, threadId, text) ==
  [items EXCEPT ![threadId] =
     Append(@, Item("msg-" \o ToString(Len(@) + 1), "agentMessage", text))]

\* =====================================================================
\* The Copilot SDK service: workspaceClients and the async functions.
\* Every await of the source is a point where another call may run; one
\* action below is the code between two awaits.
\* =====================================================================

NumClients == Cardinality({c \in Clients : wsClient[c] # "none"})
NumHandles == Cardinality({h \in Handles : sessions[h].sid # NoId})
InFlight(ops) == Cardinality({k \in CallIds : calls[k].op \in ops})

\* A call at "c_new" waits only for its microtask: `await disconnectWorkspace()`
\* has settled, and JavaScript runs that continuation before it takes the
\* next task (a command from the UI, an I/O completion) from the event loop.
MicrotaskPending == \E k \in CallIds : calls[k].pc = "c_new"

\* A command starts as a task of its own, in the lowest free slot (the slots
\* are interchangeable).
FreeSlot(k) ==
  /\ ~MicrotaskPending
  /\ calls[k].pc = "idle"
  /\ \A j \in CallIds : j < k => calls[j].pc # "idle"

\* Call k is suspended at pc and the awaited I/O completes now.
Completes(k, pc) == calls[k].pc = pc /\ ~MicrotaskPending

Suspend(k, op, pc, w, h, sid) ==
  calls' = [calls EXCEPT ![k] = [op |-> op, pc |-> pc, ws |-> w, h |-> h, sid |-> sid]]

Finish(k, op, sid, ok) ==
  /\ calls' = [calls EXCEPT ![k] = IdleCall]
  /\ lastDone' = [op |-> op, sid |-> sid, ok |-> ok]

\* session.destroy() has taken effect: the backend session behind handle h
\* is gone, for every handle of that client with the same session id.
DestroyedSessions(h) ==
  [g \in Handles |->
     IF sessions[g].client = sessions[h].client /\ sessions[g].sid = sessions[h].sid
     THEN [sessions[g] EXCEPT !.live = FALSE]
     ELSE sessions[g]]

\* client.stop() has taken effect: the process is gone and its sessions with it.
StoppedSessions(c) ==
  [g \in Handles |->
     IF sessions[g].client = c THEN [sessions[g] EXCEPT !.live = FALSE] ELSE sessions[g]]

\* A request is made on client c: autoStart spawns the process on first use.
ClientUsed(c) ==
  [wsClient EXCEPT ![c] = IF wsClient[c] = "created" THEN "started" ELSE wsClient[c]]

\* ------------------------------------------------- disconnectWorkspace
\* copilot-sdk.ts disconnectWorkspace, up to its first await.  connectWorkspace
\* begins by awaiting the same function, so both ops share these steps.
BeginDisconnect(k, op) ==
  LET w == workspaceClients["W"] IN
  /\ FreeSlot(k)
  /\ op \in {"connect", "disconnect"}
  /\ op = "connect" => NumClients + InFlight({"connect"}) < MaxClients
  /\ IF w = 0
     THEN IF op = "disconnect"
          THEN /\ lastDone' = [op |-> "disconnect", sid |-> NoId, ok |-> TRUE]
               /\ UNCHANGED calls
          ELSE /\ Suspend(k, op, "c_new", 0, 0, NoId)
               /\ UNCHANGED lastDone
     ELSE /\ IF wsSession[w] # 0
             THEN Suspend(k, op, "d_destroy", w, wsSession[w], NoId)
             ELSE Suspend(k, op, "d_stop", w, 0, NoId)
          /\ UNCHANGED lastDone
  /\ UNCHANGED <<workspaceClients, wsClient, wsSession, sessions>>
  /\ UNCHANGED nonSdkVars

\* After the try/catch: workspaceClients.delete(workspaceId), whatever is
\* registered under the id by now; connectWorkspace then goes on.
AfterDisconnect(k) ==
  /\ workspaceClients' = [workspaceClients EXCEPT !["W"] = 0]
  /\ IF calls[k].op = "disconnect"
     THEN Finish(k, "disconnect", NoId, TRUE)
     ELSE /\ Suspend(k, "connect", "c_new", 0, 0, NoId)
          /\ UNCHANGED lastDone

\* await workspace.session.destroy() returns; client.stop() is called.
DisconnectDestroyReturns(k) ==
  /\ Completes(k, "d_destroy")
  /\ sessions' = DestroyedSessions(calls[k].h)
  /\ Suspend(k, calls[k].op, "d_stop", calls[k].ws, 0, NoId)
  /\ UNCHANGED <<workspaceClients, wsClient, wsSession, lastDone>>
  /\ UNCHANGED nonSdkVars

\* await workspace.session.destroy() throws: the catch logs, stop() is skipped.
DisconnectDestroyThrows(k) ==
  /\ Completes(k, "d_destroy")
  /\ AfterDisconnect(k)
  /\ UNCHANGED <<wsClient, wsSession, sessions>>
  /\ UNCHANGED nonSdkVars

\* await workspace.client.stop() returns.
DisconnectStopReturns(k) ==
  /\ Completes(k, "d_stop")
  /\ wsClient' = [wsClient EXCEPT ![calls[k].ws] = "stopped"]
  /\ sessions' = StoppedSessions(calls[k].ws)
  /\ AfterDisconnect(k)
  /\ UNCHANGED wsSession
  /\ UNCHANGED nonSdkVars

\* Without the try/catch the rejection would leave disconnectWorkspace.
DisconnectStopPropagates(k) ==
  /\ Completes(k, "d_stop")
  /\ Finish(k, calls[k].op, NoId, FALSE)
  /\ UNCHANGED <<workspaceClients, wsClient, wsSession, sessions>>
  /\ UNCHANGED nonSdkVars

\* await workspace.client.stop() throws: the catch logs.
DisconnectStopThrows(k) ==
  /\ Completes(k, "d_stop")
  /\ AfterDisconnect(k)
  /\ UNCHANGED <<wsClient, wsSession, sessions>>
  /\ UNCHANGED nonSdkVars

\* ---------------------------------------------------- connectWorkspace
\* copilot-sdk.ts connectWorkspace after `await disconnectWorkspace(...)`:
\* new CopilotClient(...), workspaceClients.set(...).
connectWorkspace(k) ==
  LET c == NumClients + 1 IN
  /\ calls[k].pc = "c_new"
  /\ c \in Clients
  /\ wsClient' = [wsClient EXCEPT ![c] = "created"]
  /\ wsSession' = [wsSession EXCEPT ![c] = 0]
  /\ workspaceClients' = [workspaceClients EXCEPT !["W"] = c]
  /\ Finish(k, "connect", NoId, TRUE)
  /\ UNCHANGED sessions

\* With no global event callback registered, the synthetic connected event
\* of line 110 goes nowhere.
ConnectRegisters(k) ==
  /\ ~globalEventCallback
  /\ connectWorkspace(k)
  /\ UNCHANGED nonSdkVars

\* ------------------------------------------------------- createSession
BeginCreate(k) ==
  LET w == workspaceClients["W"] IN
  /\ FreeSlot(k)
  /\ NumHandles + InFlight({"create", "resume"}) < MaxHandles
  /\ IF w = 0
     THEN /\ lastDone' = [op |-> "create", sid |-> NoId, ok |-> FALSE]
          /\ UNCHANGED <<calls, wsClient>>
     ELSE /\ IF wsSession[w] # 0
             THEN /\ Suspend(k, "create", "cs_destroy", w, wsSession[w], NoId)
                  /\ UNCHANGED wsClient
             ELSE /\ Suspend(k, "create", "cs_create", w, 0, NoId)
                  /\ wsClient' = ClientUsed(w)
          /\ UNCHANGED lastDone
  /\ UNCHANGED <<workspaceClients, wsSession, sessions>>
  /\ UNCHANGED nonSdkVars

\* await workspace.session.destroy() returns: workspace.session = null, then
\* workspace.client.createSession(...) is called.
CreateDestroyReturns(k) ==
  /\ Completes(k, "cs_destroy")
  /\ sessions' = DestroyedSessions(calls[k].h)
  /\ wsSession' = [wsSession EXCEPT ![calls[k].ws] = 0]
  /\ wsClient' = ClientUsed(calls[k].ws)
  /\ Suspend(k, "create", "cs_create", calls[k].ws, 0, NoId)
  /\ UNCHANGED <<workspaceClients, lastDone>>
  /\ UNCHANGED nonSdkVars

CreateDestroyThrows(k) ==
  /\ Completes(k, "cs_destroy")
  /\ Finish(k, "create", NoId, FALSE)
  /\ UNCHANGED <<workspaceClients, wsClient, wsSession, sessions>>
  /\ UNCHANGED nonSdkVars

\* A session takes its place on the captured workspace object:
\* workspace.session = session; session.on(...).
Attach(w, sid) ==
  LET h == NumHandles + 1 IN
  /\ h \in Handles
  /\ sessions' = [sessions EXCEPT ![h] =
                    [sid |-> sid, client |-> w, live |-> TRUE, subs |-> 1]]
  /\ wsSession' = [wsSession EXCEPT ![w] = h]

\* await workspace.client.createSession(...) returns.
CreateReturns(k) ==
  /\ Completes(k, "cs_create")
  /\ wsClient[calls[k].ws] = "started"
  /\ Attach(calls[k].ws, NewSessionId(NumHandles + 1))
  /\ Finish(k, "create", NewSessionId(NumHandles + 1), TRUE)
  /\ UNCHANGED <<workspaceClients, wsClient>>
  /\ UNCHANGED nonSdkVars

\* The request is rejected: the client was stopped under it.
CreateThrows(k) ==
  /\ Completes(k, "cs_create")
  /\ wsClient[calls[k].ws] # "started"
  /\ Finish(k, "create", NoId, FALSE)
  /\ UNCHANGED <<workspaceClients, wsClient, wsSession, sessions>>
  /\ UNCHANGED nonSdkVars

\* ------------------------------------------------------- resumeSession
KnownSessionIds == (PersistedSessionIds \cup {sessions[h].sid : h \in Handles}) \ {NoId}

resumeSession(k, sid) ==
  LET w == workspaceClients["W"] IN
  /\ FreeSlot(k)
  /\ sid \in KnownSessionIds
  /\ NumHandles + InFlight({"create", "resume"}) < MaxHandles
  /\ IF w = 0
     THEN /\ lastDone' = [op |-> "resume", sid |-> sid, ok |-> FALSE]
          /\ UNCHANGED <<calls, wsClient>>
     ELSE /\ IF wsSession[w] # 0 /\ sessions[wsSession[w]].sid # sid
             THEN /\ Suspend(k, "resume", "rs_destroy", w, wsSession[w], sid)
                  /\ UNCHANGED wsClient
             ELSE /\ Suspend(k, "resume", "rs_resume", w, 0, sid)
                  /\ wsClient' = ClientUsed(w)
          /\ UNCHANGED lastDone
  /\ UNCHANGED <<workspaceClients, wsSession, sessions>>

BeginResume(k, sid) == resumeSession(k, sid) /\ UNCHANGED nonSdkVars

ResumeDestroyReturns(k) ==
  /\ Completes(k, "rs_destroy")
  /\ sessions' = DestroyedSessions(calls[k].h)
  /\ wsSession' = [wsSession EXCEPT ![calls[k].ws] = 0]
  /\ wsClient' = ClientUsed(calls[k].ws)
  /\ Suspend(k, "resume", "rs_resume", calls[k].ws, 0, calls[k].sid)
  /\ UNCHANGED <<workspaceClients, lastDone>>
  /\ UNCHANGED nonSdkVars

ResumeDestroyThrows(k) ==
  /\ Completes(k, "rs_destroy")
  /\ Finish(k, "resume", calls[k].sid, FALSE)
  /\ UNCHANGED <<workspaceClients, wsClient, wsSession, sessions>>
  /\ UNCHANGED nonSdkVars

\* await workspace.client.resumeSession(sessionId) returns.
ResumeReturns(k) ==
  /\ Completes(k, "rs_resume")
  /\ wsClient[calls[k].ws] = "started"
  /\ Attach(calls[k].ws, calls[k].sid)
  /\ Finish(k, "resume", calls[k].sid, TRUE)
  /\ UNCHANGED <<workspaceClients, wsClient>>
  /\ UNCHANGED nonSdkVars

ResumeThrows(k) ==
  /\ Completes(k, "rs_resume")
  /\ wsClient[calls[k].ws] # "started"
  /\ Finish(k, "resume", calls[k].sid, FALSE)
  /\ UNCHANGED <<workspaceClients, wsClient, wsSession, sessions>>
  /\ UNCHANGED nonSdkVars

\* ------------------------------------------------------ destroySession
BeginDestroy(k) ==
  LET w == workspaceClients["W"] IN
  /\ FreeSlot(k)
  /\ IF w = 0 \/ (w # 0 /\ wsSession[w] = 0)
     THEN /\ lastDone' = [op |-> "destroy", sid |-> NoId, ok |-> TRUE]
          /\ UNCHANGED calls
     ELSE /\ Suspend(k, "destroy", "ds_destroy", w, wsSession[w], NoId)
          /\ UNCHANGED lastDone
  /\ UNCHANGED <<workspaceClients, wsClient, wsSession, sessions>>
  /\ UNCHANGED nonSdkVars

\* await workspace.session.destroy() returns: workspace.session = null.
DestroyReturns(k) ==
  /\ Completes(k, "ds_destroy")
  /\ sessions' = DestroyedSessions(calls[k].h)
  /\ wsSession' = [wsSession EXCEPT ![calls[k].ws] = 0]
  /\ Finish(k, "destroy", NoId, TRUE)
  /\ UNCHANGED <<workspaceClients, wsClient>>
  /\ UNCHANGED nonSdkVars

DestroyThrows(k) ==
  /\ Completes(k, "ds_destroy")
  /\ Finish(k, "destroy", NoId, FALSE)
  /\ UNCHANGED <<workspaceClients, wsClient, wsSession, sessions>>
  /\ UNCHANGED nonSdkVars

\* ------------------------------------------------------- specification
NothingConnected ==
  /\ workspaceClients = [w \in WorkspaceIds |-> 0]
  /\ wsClient = [c \in Clients |-> "none"]
  /\ wsSession = [c \in Clients |-> 0]
  /\ sessions = [h \in Handles |-> NoSession]
  /\ calls = [k \in CallIds |-> IdleCall]
  /\ lastDone = NothingDone

\* The application has started: nothing is connected, no thread is known.
InitSdk ==
  /\ NothingConnected
  /\ backendLog = [s \in SessionIds |-> <<>>]
  /\ InitThreadState
  /\ InitHistoryState
  /\ InitAdapterState(FALSE)
  /\ persisted = NoSnapshot

NextSdk ==
  \/ \E k \in CallIds : BeginDisconnect(k, "connect")
  \/ \E k \in CallIds : BeginDisconnect(k, "disconnect")
  \/ \E k \in CallIds : DisconnectDestroyReturns(k)
  \/ \E k \in CallIds : DisconnectDestroyThrows(k)
  \/ \E k \in CallIds : DisconnectStopReturns(k)
  \/ \E k \in CallIds : DisconnectStopThrows(k)
  \/ \E k \in CallIds : ConnectRegisters(k)
  \/ \E k \in CallIds : BeginCreate(k)
  \/ \E k \in CallIds : CreateDestroyReturns(k)
  \/ \E k \in CallIds : CreateDestroyThrows(k)
  \/ \E k \in CallIds : CreateReturns(k)
  \/ \E k \in CallIds : CreateThrows(k)
  \/ \E k \in CallIds, sid \in SessionIds : BeginResume(k, sid)
  \/ \E k \in CallIds : ResumeDestroyReturns(k)
  \/ \E k \in CallIds : ResumeDestroyThrows(k)
  \/ \E k \in CallIds : ResumeReturns(k)
  \/ \E k \in CallIds : ResumeThrows(k)
  \/ \E k \in CallIds : BeginDestroy(k)
  \/ \E k \in CallIds : DestroyReturns(k)
  \/ \E k \in CallIds : DestroyThrows(k)

SpecSdk == InitSdk /\ [][NextSdk]_vars

\* The same service over a backend whose destroy() and stop() never fail.
NextSdkReliable ==
  \/ \E k \in CallIds : BeginDisconnect(k, "connect")
  \/ \E k \in CallIds : BeginDisconnect(k, "disconnect")
  \/ \E k \in CallIds : DisconnectDestroyReturns(k)
  \/ \E k \in CallIds : DisconnectStopReturns(k)
  \/ \E k \in CallIds : ConnectRegisters(k)
  \/ \E k \in CallIds : BeginCreate(k)
  \/ \E k \in CallIds : CreateDestroyReturns(k)
  \/ \E k \in CallIds : CreateReturns(k)
  \/ \E k \in CallIds : CreateThrows(k)
  \/ \E k \in CallIds, sid \in SessionIds : BeginResume(k, sid)
  \/ \E k \in CallIds : ResumeDestroyReturns(k)
  \/ \E k \in CallIds : ResumeReturns(k)
  \/ \E k \in CallIds : ResumeThrows(k)
  \/ \E k \in CallIds : BeginDestroy(k)
  \/ \E k \in CallIds : DestroyReturns(k)

SpecSdkReliable == InitSdk /\ [][NextSdkReliable]_vars

\* =====================================================================
\* Threads of a connected workspace: commands of the adapter, events of the
\* backend session, detached reviews.
\* =====================================================================
MaxNow == 1          \* milliseconds the clock may advance

ParentThreads == {"W", "s1"}
ReviewThreads == {"n1", "n2"}
NativeEventIds == {Undefined, "e1"}
NativeEventTypes ==
  {"session.idle", "session.error", "assistant.turn_start", "assistant.turn_end",
   "session.info"}
SeedLog == <<Item("m1", "agentMessage", "hello")>>

statusVars == <<threadStatusById, activeTurnIdByThread, itemsByThread>>

\* The canonical event reaches the reducer.
ApplyEvent(ev) ==
  /\ threadStatusById' = StatusAfter(threadStatusById, ev)
  /\ activeTurnIdByThread' = TurnsAfter(activeTurnIdByThread, ev)
  /\ itemsByThread' = ItemsAfter(itemsByThread, ev)

TurnId(t) == "turn-" \o ToString(t)

\* copilot-sdk.ts sendMessage, as far as its caller sees it.
sendMessage(w) ==
  IF workspaceClients[w] = 0 THEN "NoSession"
  ELSE IF wsSession[workspaceClients[w]] = 0 THEN "NoSession"
  ELSE "sent"

\* copilot-backend.ts sendUserMessage(workspaceId, _threadId, text).
sendUserMessage(w, t) ==
  /\ ApplyEvent(TurnStartedEvent(w, t, TurnId(now)))
  /\ lastSend' = sendMessage(w)

SendUserMessage(t) ==
  /\ ~MicrotaskPending
  /\ sendUserMessage("W", t)
  /\ UNCHANGED <<sdkVars, backendLog, adapterVars, historyVars, threadParentById, activeThreadIdByWorkspace,
                 unreadByThread, detachedReviewNoticeRef, now, reviewExits, threadActivity>>

\* The session of the workspace delivers a native event to the global callback.
SessionLive(w) ==
  /\ workspaceClients[w] # 0
  /\ wsSession[workspaceClients[w]] # 0
  /\ sessions[wsSession[workspaceClients[w]]].live

BackendEvent(type, id, hasData) ==
  LET event == [NativeEvent(type, id) EXCEPT !.hasData = hasData]
      ev == transformEvent("W", event)
  IN /\ ~MicrotaskPending
     /\ SessionLive("W")
     /\ globalEventCallback
     /\ IF ev = Thrown THEN UNCHANGED statusVars ELSE ApplyEvent(ev)
     /\ UNCHANGED <<sdkVars, backendLog, adapterVars, historyVars, threadParentById, activeThreadIdByWorkspace,
                    unreadByThread, detachedReviewNoticeRef, now, lastSend, reviewExits, threadActivity>>

\* Section 4.3, detached review: review thread R is linked to parent P, and P
\* enters Reviewing with an active turn.
StartReview(P, R) ==
  /\ ~MicrotaskPending
  /\ P # R
  /\ threadParentById[R] = NoId
  /\ threadStatusById[P] = Idle
  /\ threadParentById' = [threadParentById EXCEPT ![R] = P]
  /\ threadStatusById' = markReviewing(threadStatusById, P, TRUE)
  /\ activeTurnIdByThread' = setActiveTurnId(activeTurnIdByThread, P, TurnId(now))
  /\ UNCHANGED <<sdkVars, backendLog, adapterVars, historyVars, itemsByThread, activeThreadIdByWorkspace,
                 unreadByThread, detachedReviewNoticeRef, now, lastSend, reviewExits, threadActivity>>

\* useThreads handleReviewExited(workspaceId, threadId).
NoticeKey(parentId, threadId) == parentId \o "->" \o threadId
NoticeText(threadId) ==
  "Detached review completed. [Open review thread](/thread/" \o threadId \o ")"

ReviewExitKeepsTurn(turns, parentId) == turns
ReviewExitClearsTurn(turns, parentId) == setActiveTurnId(turns, parentId, NoId)
AlreadyNotified(ref, noticeKey) == noticeKey \in ref

\* A guard that lets a thread that is its own parent through.
ParentMissing(parentId, threadId) == parentId = NoId
\* !parentId || parentId === threadId
NoParent(parentId, threadId) == parentId = NoId \/ parentId = threadId

\* A handler that marks the parent unread whichever thread is active.
WhicheverIsActive(parentId, activeThreadId) == TRUE
\* parentId !== activeThreadId
NotActiveThread(parentId, activeThreadId) == parentId # activeThreadId

handleReviewExited(w, threadId) ==
  LET parentId == threadParentById[threadId]
      noticeKey == NoticeKey(parentId, threadId)
  IN IF NoParent(parentId, threadId)
     THEN UNCHANGED <<statusVars, detachedReviewNoticeRef, unreadByThread, threadActivity>>
     ELSE IF ~threadStatusById[parentId].isReviewing
     THEN UNCHANGED <<statusVars, detachedReviewNoticeRef, unreadByThread, threadActivity>>
     ELSE /\ threadActivity' = [threadActivity EXCEPT ![parentId] = now]
          /\ threadStatusById' =
               markProcessing(markReviewing(threadStatusById, parentId, FALSE),
                              parentId, FALSE)
          /\ activeTurnIdByThread' = ReviewExitClearsTurn(activeTurnIdByThread, parentId)
          /\ IF ~AlreadyNotified(detachedReviewNoticeRef, noticeKey)
             THEN /\ detachedReviewNoticeRef' = detachedReviewNoticeRef \cup {noticeKey}
                  /\ itemsByThread' =
                       addAssistantMessage(itemsByThread, parentId, NoticeText(threadId))
             ELSE UNCHANGED <<detachedReviewNoticeRef, itemsByThread>>
          /\ IF NotActiveThread(parentId, activeThreadIdByWorkspace[w])
             THEN unreadByThread' = [unreadByThread EXCEPT ![parentId] = TRUE]
             ELSE UNCHANGED unreadByThread

\* A terminal or review-exit event of thread R reaches the handler.
ReviewExited(R) ==
  /\ ~MicrotaskPending
  /\ handleReviewExited("W", R)
  /\ reviewExits' = IF threadParentById[R] # NoId THEN reviewExits \cup {R} ELSE reviewExits
  /\ UNCHANGED <<sdkVars, backendLog, adapterVars, historyVars, threadParentById, activeThreadIdByWorkspace,
                 now, lastSend>>

\* useThreads setActiveThreadId(threadId): the selection is dispatched and the
\* thread is resumed in the background.
SetActiveThreadId(k, t) ==
  /\ activeThreadIdByWorkspace' = [activeThreadIdByWorkspace EXCEPT !["W"] = t]
  /\ resumeSession(k, t)
  /\ UNCHANGED <<backendLog, adapterVars, historyVars, itemsByThread, threadStatusById, activeTurnIdByThread,
                 threadParentById, unreadByThread, detachedReviewNoticeRef, now,
                 lastSend, reviewExits, threadActivity>>

Tick ==
  /\ now < MaxNow
  /\ now' = now + 1
  /\ UNCHANGED <<sdkVars, backendLog, adapterVars, historyVars, itemsByThread, threadStatusById,
                 activeTurnIdByThread, threadParentById, activeThreadIdByWorkspace,
                 unreadByThread, detachedReviewNoticeRef, lastSend, reviewExits, threadActivity>>

\* The workspace is connected; the backend holds session s1 from an earlier run.
InitThreads ==
  /\ workspaceClients = [w \in WorkspaceIds |-> 1]
  /\ wsClient = [c \in Clients |-> IF c = 1 THEN "created" ELSE "none"]
  /\ wsSession = [c \in Clients |-> 0]
  /\ sessions = [h \in Handles |-> NoSession]
  /\ calls = [k \in CallIds |-> IdleCall]
  /\ lastDone = NothingDone
  /\ backendLog = [s \in SessionIds |-> IF s \in PersistedSessionIds THEN SeedLog ELSE <<>>]
  /\ InitThreadState
  /\ InitHistoryState
  /\ InitAdapterState(TRUE)
  /\ persisted = NoSnapshot

NextThreads ==
  \/ \E t \in ParentThreads : SendUserMessage(t)
  \/ \E type \in NativeEventTypes, id \in NativeEventIds, hasData \in BOOLEAN :
       BackendEvent(type, id, hasData)
  \/ \E P \in ParentThreads, R \in ReviewThreads : StartReview(P, R)
  \/ \E R \in ReviewThreads : ReviewExited(R)
  \/ \E k \in CallIds, t \in PersistedSessionIds : SetActiveThreadId(k, t)
  \/ \E k \in CallIds : ResumeReturns(k)
  \/ Tick

SpecThreads == InitThreads /\ [][NextThreads]_vars

\* =====================================================================
\* Thread history of a workspace: merge-on-load and the debounced save.
\* A closure reads the state of the render that made it; the load holds its
\* closure across `await loadThreadHistory`, a timer until it fires.  The
\* save effect runs with the commit of every change to what it depends on.
\* =====================================================================
DebounceMs == 750
MaxWindows == 2      \* debounce windows the clock may advance

HistoryThreads == {"s1", "n1"}
ItemIds == {"e1"}

ThreadSummary(id, updatedAt) == [id |-> id, updatedAt |-> updatedAt]

\* What an earlier run may have left on disk for the workspace.
PersistedSnapshots ==
  {NoSnapshot,
   [version |-> 1, workspaceId |-> "W", activeThreadId |-> "s1",
    threads |-> <<ThreadSummary("s1", 1)>>,
    itemsByThread |-> [t \in {"s1"} |-> SeedLog],
    threadParentById |-> EmptyMap, savedAt |-> 1],
   [version |-> 1, workspaceId |-> "W", activeThreadId |-> NoId,
    threads |-> <<ThreadSummary("n1", 2), ThreadSummary("s1", 1)>>,
    itemsByThread |-> [t \in {"s1"} |-> SeedLog],
    threadParentById |-> [t \in {"n1"} |-> "s1"], savedAt |-> 2]}

\* map[key] ?? default
Get(map, key, default) == IF key \in DOMAIN map THEN map[key] ELSE default
SetKey(map, key, value) ==
  [k \in DOMAIN map \cup {key} |-> IF k = key THEN value ELSE map[k]]
ThreadIdsOf(threads) == {threads[i].id : i \in 1..Len(threads)}

\* [...].sort((a, b) => (b.updatedAt ?? 0) - (a.updatedAt ?? 0)): newest
\* first, threads of equal updatedAt in their former order.
InsertByUpdatedAt(sorted, thread) ==
  LET k == Cardinality({i \in 1..Len(sorted) : sorted[i].updatedAt >= thread.updatedAt})
  IN SubSeq(sorted, 1, k) \o <<thread>> \o SubSeq(sorted, k + 1, Len(sorted))
RECURSIVE SortByUpdatedAt(_)
SortByUpdatedAt(threads) ==
  IF threads = <<>> THEN <<>>
  ELSE InsertByUpdatedAt(SortByUpdatedAt(SubSeq(threads, 1, Len(threads) - 1)),
                         threads[Len(threads)])

CurrentClosure ==
  Closure(threadsByWorkspace, itemsByThread, threadParentById, activeThreadIdByWorkspace)

NextClosure ==
  Closure(threadsByWorkspace', itemsByThread', threadParentById', activeThreadIdByWorkspace')

threadOnlyVars == <<threadStatusById, activeTurnIdByThread, unreadByThread,
                    detachedReviewNoticeRef, lastSend, reviewExits, threadActivity>>
saveVars == <<lastSavedHistoryRef, writes, written>>

\* ------------------------------------------------------ the save effect
WorkspaceIdsOf(cl) ==
  DOMAIN cl.threadsByWorkspace
    \cup {w \in WorkspaceIds : cl.activeThreadIdByWorkspace[w] # NoId}

keepTimeout(pending, ref) == pending
clearTimeout(pending, ref) == pending \ ref

\* The effect runs for the state just committed: the cleanup of its former
\* run and its own clearTimeout clear the timer the ref names, then a timer
\* that holds the new closure is set, unless no workspace is known.
SaveEffect ==
  LET cl == NextClosure
      timer == [due |-> now + DebounceMs, closure |-> cl]
      cleaned == clearTimeout(historySaveTimers, historySaveTimerRef)
  IN IF WorkspaceIdsOf(cl) = {}
     THEN /\ historySaveTimers' = cleaned
          /\ UNCHANGED historySaveTimerRef
     ELSE /\ historySaveTimers' = clearTimeout(cleaned, historySaveTimerRef) \cup {timer}
          /\ historySaveTimerRef' = {timer}

buildSnapshotWithoutParents(cl, workspaceId, savedAt) ==
  [version |-> 1,
   workspaceId |-> workspaceId,
   activeThreadId |-> cl.activeThreadIdByWorkspace[workspaceId],
   threads |-> Get(cl.threadsByWorkspace, workspaceId, <<>>),
   itemsByThread |->
     [id \in {i \in ThreadIdsOf(Get(cl.threadsByWorkspace, workspaceId, <<>>)) :
                cl.itemsByThread[i] # <<>>} |-> cl.itemsByThread[id]],
   threadParentById |-> EmptyMap,
   savedAt |-> savedAt]
buildThreadHistorySnapshot(cl, workspaceId, savedAt) ==
  LET threads == Get(cl.threadsByWorkspace, workspaceId, <<>>)
      ids == ThreadIdsOf(threads)
  IN [version |-> 1,
      workspaceId |-> workspaceId,
      activeThreadId |-> cl.activeThreadIdByWorkspace[workspaceId],
      threads |-> threads,
      itemsByThread |->
        [id \in {i \in ids : cl.itemsByThread[i] # <<>>} |-> cl.itemsByThread[id]],
      threadParentById |->
        [id \in {i \in ids : cl.threadParentById[i] # NoId} |-> cl.threadParentById[id]],
      savedAt |-> savedAt]

\* JSON.stringify(snapshot): the values in the order of the keys.
JSONstringify(snapshot) ==
  <<snapshot.version, snapshot.workspaceId, snapshot.activeThreadId, snapshot.threads,
    snapshot.itemsByThread, snapshot.threadParentById, snapshot.savedAt>>

\* The timer fires, 750 ms or more after it was set.
SaveTimerFires(timer) ==
  LET ids == WorkspaceIdsOf(timer.closure)
      snapshot(w) == buildThreadHistorySnapshot(timer.closure, w, now)
      saves(w) == w \in ids /\ lastSavedHistoryRef[w] # JSONstringify(snapshot(w))
  IN /\ timer \in historySaveTimers
     /\ now >= timer.due
     /\ historySaveTimers' = historySaveTimers \ {timer}
     /\ lastSavedHistoryRef' =
          [w \in WorkspaceIds |->
             IF saves(w) THEN JSONstringify(snapshot(w)) ELSE lastSavedHistoryRef[w]]
     /\ writes' = [w \in WorkspaceIds |-> IF saves(w) THEN writes[w] + 1 ELSE writes[w]]
     /\ written' = [w \in WorkspaceIds |-> IF saves(w) THEN snapshot(w) ELSE written[w]]
     /\ UNCHANGED <<sdkVars, backendLog, adapterVars, threadVars, threadsByWorkspace, persisted,
                    historyLoadedRef, loadedThreadsRef, historyLoad, historySaveTimerRef>>

\* ------------------------------------------------------ the load effect
\* The effect starts the load once per workspace; the async function keeps
\* the applyThreadHistory of this render.
HistoryLoadStarts ==
  /\ "W" \notin historyLoadedRef
  /\ historyLoadedRef' = historyLoadedRef \cup {"W"}
  /\ historyLoad' = [pc |-> "loading", closure |-> CurrentClosure]
  /\ UNCHANGED <<sdkVars, backendLog, adapterVars, threadVars, threadsByWorkspace, persisted,
                 loadedThreadsRef, historySaveTimers, historySaveTimerRef, saveVars>>

\* A load that would refuse a snapshot of another version.
applyThreadHistoryOfVersion1(cl, workspaceId, snapshot) ==
  IF snapshot.version = 1
  THEN /\ threadsByWorkspace' = SetKey(threadsByWorkspace, workspaceId, snapshot.threads)
       /\ itemsByThread' =
            [t \in ThreadIds |-> Get(snapshot.itemsByThread, t, itemsByThread[t])]
       /\ loadedThreadsRef' = loadedThreadsRef \cup DOMAIN snapshot.itemsByThread
       /\ threadParentById' =
            [t \in ThreadIds |-> Get(snapshot.threadParentById, t, threadParentById[t])]
       /\ activeThreadIdByWorkspace' =
            [activeThreadIdByWorkspace EXCEPT ![workspaceId] = snapshot.activeThreadId]
  ELSE UNCHANGED <<threadsByWorkspace, itemsByThread, loadedThreadsRef, threadParentById,
                   activeThreadIdByWorkspace>>

\* applyThreadHistory(workspaceId, snapshot), reading the closure cl.
applyThreadHistory(cl, workspaceId, snapshot) ==
  LET existingThreads == Get(cl.threadsByWorkspace, workspaceId, <<>>)
      existingIds == ThreadIdsOf(existingThreads)
      additions == SelectSeq(snapshot.threads, LAMBDA thread : thread.id \notin existingIds)
      mergedThreads == SortByUpdatedAt(existingThreads \o additions)
      withItems == {id \in ThreadIdsOf(mergedThreads) :
                      Get(snapshot.itemsByThread, id, <<>>) # <<>>}
  IN /\ threadsByWorkspace' =
          IF \/ Len(mergedThreads) > 0 /\ Len(additions) > 0
             \/ Len(existingThreads) = 0 /\ Len(mergedThreads) > 0
          THEN SetKey(threadsByWorkspace, workspaceId, mergedThreads)
          ELSE threadsByWorkspace
     /\ itemsByThread' =
          [t \in ThreadIds |->
             IF t \in withItems /\ cl.itemsByThread[t] = <<>>
             THEN snapshot.itemsByThread[t]
             ELSE itemsByThread[t]]
     /\ loadedThreadsRef' = loadedThreadsRef \cup withItems
     /\ threadParentById' =
          [t \in ThreadIds |->
             IF Get(snapshot.threadParentById, t, NoId) # NoId
             THEN snapshot.threadParentById[t]
             ELSE threadParentById[t]]
     /\ activeThreadIdByWorkspace' =
          IF snapshot.activeThreadId # NoId /\ cl.activeThreadIdByWorkspace[workspaceId] = NoId
          THEN [activeThreadIdByWorkspace EXCEPT ![workspaceId] = snapshot.activeThreadId]
          ELSE activeThreadIdByWorkspace

\* `await loadThreadHistory` returns the snapshot, or null.
HistoryLoadReturns ==
  /\ historyLoad.pc = "loading"
  /\ historyLoad' = [historyLoad EXCEPT !.pc = "done"]
  /\ IF persisted = NoSnapshot
     THEN UNCHANGED <<threadsByWorkspace, itemsByThread, loadedThreadsRef,
                      threadParentById, activeThreadIdByWorkspace>>
     ELSE applyThreadHistory(historyLoad.closure, "W", persisted)
  /\ IF NextClosure # CurrentClosure
     THEN SaveEffect
     ELSE UNCHANGED <<historySaveTimers, historySaveTimerRef>>
  /\ UNCHANGED <<sdkVars, backendLog, adapterVars, threadOnlyVars, now, persisted, historyLoadedRef,
                 saveVars>>

\* Without the try/catch the rejection would leave the effect's async function.
HistoryLoadRethrows ==
  /\ historyLoad.pc = "loading"
  /\ historyLoad' = [historyLoad EXCEPT !.pc = "unhandled"]
  /\ UNCHANGED <<sdkVars, backendLog, adapterVars, threadVars, threadsByWorkspace, persisted,
                 historyLoadedRef, loadedThreadsRef, historySaveTimers,
                 historySaveTimerRef, saveVars>>

\* `await loadThreadHistory` throws: the catch reports it.
HistoryLoadThrows ==
  /\ historyLoad.pc = "loading"
  /\ historyLoad' = [historyLoad EXCEPT !.pc = "done"]
  /\ UNCHANGED <<sdkVars, backendLog, adapterVars, threadVars, threadsByWorkspace, persisted,
                 historyLoadedRef, loadedThreadsRef, historySaveTimers,
                 historySaveTimerRef, saveVars>>

\* ------------------------------------------------- changes of live state
\* thread/started: the thread enters the live list of its workspace.
ThreadStarted(t) ==
  /\ t \notin ThreadIdsOf(Get(threadsByWorkspace, "W", <<>>))
  /\ threadsByWorkspace' =
       SetKey(threadsByWorkspace, "W",
              <<ThreadSummary(t, now)>> \o Get(threadsByWorkspace, "W", <<>>))
  /\ UNCHANGED <<itemsByThread, threadParentById, activeThreadIdByWorkspace>>
  /\ SaveEffect
  /\ UNCHANGED <<sdkVars, backendLog, adapterVars, threadOnlyVars, now, persisted, historyLoadedRef,
                 loadedThreadsRef, historyLoad, saveVars>>

\* An item event for a thread of the live list: its live log gains the item.
ItemEvent(t, id) ==
  /\ t \in ThreadIdsOf(Get(threadsByWorkspace, "W", <<>>))
  /\ ~HasItem(itemsByThread[t], id)
  /\ itemsByThread' =
       [itemsByThread EXCEPT ![t] = UpsertItem(@, Item(id, "agentMessage", ""))]
  /\ UNCHANGED <<threadsByWorkspace, threadParentById, activeThreadIdByWorkspace>>
  /\ SaveEffect
  /\ UNCHANGED <<sdkVars, backendLog, adapterVars, threadOnlyVars, now, persisted, historyLoadedRef,
                 loadedThreadsRef, historyLoad, saveVars>>

\* A dependency of the save effect is a new object of equal content (a slice
\* the reducer rebuilt, a new onDebug): the effect runs again.
SaveEffectRuns ==
  /\ UNCHANGED <<threadsByWorkspace, itemsByThread, threadParentById,
                 activeThreadIdByWorkspace>>
  /\ SaveEffect
  /\ UNCHANGED <<sdkVars, backendLog, adapterVars, threadOnlyVars, now, persisted, historyLoadedRef,
                 loadedThreadsRef, historyLoad, saveVars>>

Elapse ==
  /\ now < MaxWindows * DebounceMs
  /\ now' = now + DebounceMs
  /\ UNCHANGED <<sdkVars, backendLog, adapterVars, historyVars, itemsByThread, threadStatusById,
                 activeTurnIdByThread, threadParentById, activeThreadIdByWorkspace,
                 unreadByThread, detachedReviewNoticeRef, lastSend, reviewExits, threadActivity>>

InitHistory ==
  /\ NothingConnected
  /\ backendLog = [s \in SessionIds |-> IF s \in PersistedSessionIds THEN SeedLog ELSE <<>>]
  /\ InitThreadState
  /\ InitHistoryState
  /\ InitAdapterState(FALSE)
  /\ persisted \in PersistedSnapshots

NextHistory ==
  \/ HistoryLoadStarts
  \/ HistoryLoadReturns
  \/ HistoryLoadThrows
  \/ \E t \in HistoryThreads : ThreadStarted(t)
  \/ \E t \in HistoryThreads, id \in ItemIds : ItemEvent(t, id)
  \/ SaveEffectRuns
  \/ \E timer \in historySaveTimers : SaveTimerFires(timer)
  \/ Elapse

SpecHistory == InitHistory /\ [][NextHistory]_vars

\* =====================================================================
\* transformEvent on its own: one native event at a time, from every
\* event type of the mapping table and two that are not in it.
\* =====================================================================
KnownEventTypes ==
  {"session.idle", "session.error", "assistant.message", "assistant.message_delta",
   "tool.execution_start", "tool.execution_complete", "assistant.reasoning",
   "assistant.reasoning_delta", "assistant.turn_start", "assistant.turn_end"}
UnknownEventTypes == {"session.info", "user.message"}
TranslateWorkspaces == {"W", "V"}

FullData ==
  [deltaContent |-> "delta", content |-> "text", message |-> "failed",
   errorType |-> "E1", toolCallId |-> "call1", toolName |-> "bash",
   arguments |-> "args", success |-> "true", resultContent |-> "out",
   errorMessage |-> Undefined]

\* The events: with or without an id; with no payload, an empty one, a full one.
TranslatedEvents ==
  {[type |-> type, id |-> id, hasData |-> payload # "absent",
    data |-> IF payload = "full" THEN FullData ELSE NoData] :
     type \in KnownEventTypes \cup UnknownEventTypes,
     id \in NativeEventIds,
     payload \in {"absent", "empty", "full"}}

\* transformEvent(workspaceId, event) is called and returns (or throws).
Translate ==
  /\ canonical = NotTranslated
  /\ canonical' = transformEvent(native.workspaceId, native.event)
  /\ UNCHANGED <<readerVars, smokeVars, removalVars, sdkVars, backendLog, routeVars, native, permissionVars, threadVars,
                 historyVars>>

\* The next event arrives.
NextNative(workspaceId, event) ==
  /\ canonical # NotTranslated
  /\ native' = [workspaceId |-> workspaceId, event |-> event]
  /\ canonical' = NotTranslated
  /\ UNCHANGED <<readerVars, smokeVars, removalVars, sdkVars, backendLog, routeVars, permissionVars, threadVars, historyVars>>

InitTranslate ==
  /\ NothingConnected
  /\ backendLog = [s \in SessionIds |-> <<>>]
  /\ InitThreadState
  /\ InitHistoryState
  /\ persisted = NoSnapshot
  /\ globalEventCallback = TRUE
  /\ received = <<>>
  /\ emitted = <<>>
  /\ \E w \in TranslateWorkspaces, event \in TranslatedEvents :
       native = [workspaceId |-> w, event |-> event]
  /\ canonical = NotTranslated
  /\ globalPermissionCallback = TRUE
  /\ NoPermissions
  /\ NothingRemoved
  /\ SmokeNotStarted
  /\ NothingRead

NextTranslate ==
  \/ Translate
  \/ \E w \in TranslateWorkspaces, event \in TranslatedEvents : NextNative(w, event)

SpecTranslate == InitTranslate /\ [][NextTranslate]_vars

\* =====================================================================
\* Event routing: from the sessions and connectWorkspace, through the global
\* event callback, to emitAppServerEvent. `received` lists the events handed
\* to `globalEventCallback?.(...)`, `emitted` the calls of emitAppServerEvent.
\* =====================================================================
MaxEvents == 2

\* copilot-sdk.ts connectWorkspace: the synthetic connected event.
ConnectedEvent ==
  [type |-> "session.info", id |-> "connected", hasData |-> TRUE,
   data |-> [NoData EXCEPT !.message = "Workspace connected"]]

\* What a session may deliver: a turn start, a turn end, a delta with no payload.
RoutedEvents ==
  {NativeEvent("assistant.turn_start", "e1"),
   NativeEvent("session.idle", Undefined),
   [NativeEvent("assistant.message_delta", "e1") EXCEPT !.hasData = FALSE]}

\* emitAppServerEvent(event) for the native event at index src of `received`.
Emission(src, ev) == [src |-> src, ev |-> ev]

\* globalEventCallback?.(workspaceId, event): with the callback of
\* initCopilotBackend registered, the event is translated and emitted before
\* the call returns; with none registered, nothing happens.
DeliverLatestFirst(workspaceId, event) ==
  LET ev == transformEvent(workspaceId, event) IN
  /\ received' = Append(received, [workspaceId |-> workspaceId, event |-> event])
  /\ emitted' = IF globalEventCallback /\ ev # Thrown
                THEN <<Emission(Len(received) + 1, ev)>> \o emitted
                ELSE emitted
Deliver(workspaceId, event) ==
  LET ev == transformEvent(workspaceId, event) IN
  /\ received' = Append(received, [workspaceId |-> workspaceId, event |-> event])
  /\ emitted' = IF globalEventCallback /\ ev # Thrown
                THEN Append(emitted, Emission(Len(received) + 1, ev))
                ELSE emitted

\* copilot-backend.ts initCopilotBackend: setGlobalEventCallback(...) and
\* setGlobalPermissionCallback(...).
InitCopilotBackend ==
  /\ ~globalEventCallback
  /\ globalEventCallback' = TRUE
  /\ globalPermissionCallback' = TRUE
  /\ UNCHANGED <<readerVars, smokeVars, removalVars, sdkVars, backendLog, received, emitted, translateVars, permissionAnswers,
                 approvals, approvalAllowlist, approvalDecisions, threadVars, historyVars>>

\* copilot-sdk.ts connectWorkspace, from new CopilotClient to its return.
ConnectEmits(k) ==
  /\ Len(received) < MaxEvents
  /\ connectWorkspace(k)
  /\ Deliver("W", ConnectedEvent)
  /\ UNCHANGED <<readerVars, smokeVars, removalVars, backendLog, globalEventCallback, translateVars, permissionVars, threadVars,
                 historyVars>>

\* A session with a subscribed handler delivers a native event.
SessionDelivers(h, event) ==
  /\ ~MicrotaskPending
  /\ Len(received) < MaxEvents
  /\ sessions[h].live
  /\ sessions[h].subs > 0
  /\ Deliver("W", event)
  /\ UNCHANGED <<readerVars, smokeVars, removalVars, sdkVars, backendLog, globalEventCallback, translateVars, permissionVars,
                 threadVars, historyVars>>

NextRouting ==
  \/ InitCopilotBackend
  \/ \E k \in CallIds : BeginDisconnect(k, "connect")
  \/ \E k \in CallIds : DisconnectDestroyReturns(k)
  \/ \E k \in CallIds : DisconnectStopReturns(k)
  \/ \E k \in CallIds : ConnectEmits(k)
  \/ \E k \in CallIds : BeginCreate(k)
  \/ \E k \in CallIds : CreateDestroyReturns(k)
  \/ \E k \in CallIds : CreateReturns(k)
  \/ \E k \in CallIds : CreateThrows(k)
  \/ \E k \in CallIds, sid \in SessionIds : BeginResume(k, sid)
  \/ \E k \in CallIds : ResumeDestroyReturns(k)
  \/ \E k \in CallIds : ResumeReturns(k)
  \/ \E k \in CallIds : ResumeThrows(k)
  \/ \E h \in Handles, event \in RoutedEvents : SessionDelivers(h, event)

SpecRouting == InitSdk /\ [][NextRouting]_vars

\* =====================================================================
\* Permission requests: the backend asks, the permission callback answers.
\* =====================================================================
PermissionRequest(id, kind) == [id |-> id, kind |-> kind]
Approved == [kind |-> "approved"]

\* The callback of setGlobalPermissionCallback: it emits approval/<kind> with
\* the request, which adds the request to the approvals shown to the user,
\* and returns its result to the backend.
PermissionCallback(request) ==
  /\ approvals' = approvals \cup {request}
  /\ permissionAnswers' =
       [permissionAnswers EXCEPT ![request.id] = Append(@, Approved)]

\* The backend raises a permission request; each tool call asks once.
PermissionRequested(id, kind) ==
  /\ globalPermissionCallback
  /\ permissionAnswers[id] = <<>>
  /\ \A request \in approvals : request.id # id
  /\ id \notin approvalDecisions
  /\ PermissionCallback(PermissionRequest(id, kind))
  /\ UNCHANGED <<readerVars, smokeVars, removalVars, sdkVars, backendLog, routeVars, translateVars, globalPermissionCallback,
                 approvalAllowlist, approvalDecisions, threadVars, historyVars>>

\* The user decides a request that is shown: it is removed on resolution.
ApprovalDecision(request) ==
  /\ request \in approvals
  /\ approvals' = approvals \ {request}
  /\ approvalDecisions' = approvalDecisions \cup {request.id}
  /\ UNCHANGED <<readerVars, smokeVars, removalVars, sdkVars, backendLog, routeVars, translateVars, globalPermissionCallback,
                 permissionAnswers, approvalAllowlist, threadVars, historyVars>>

\* The user decides and asks to remember the decision for the request's kind.
ApprovalRemember(request) ==
  /\ request \in approvals
  /\ request.kind \notin approvalAllowlist
  /\ approvals' = approvals \ {request}
  /\ approvalDecisions' = approvalDecisions \cup {request.id}
  /\ approvalAllowlist' = approvalAllowlist \cup {request.kind}
  /\ UNCHANGED <<readerVars, smokeVars, removalVars, sdkVars, backendLog, routeVars, translateVars, globalPermissionCallback,
                 permissionAnswers, threadVars, historyVars>>

NextPermissions ==
  \/ InitCopilotBackend
  \/ \E id \in PermissionIds, kind \in PermissionKinds : PermissionRequested(id, kind)
  \/ \E id \in PermissionIds, kind \in PermissionKinds :
       ApprovalDecision(PermissionRequest(id, kind))
  \/ \E id \in PermissionIds, kind \in PermissionKinds :
       ApprovalRemember(PermissionRequest(id, kind))

SpecPermissions == InitSdk /\ [][NextPermissions]_vars

\* =====================================================================
\* Interrupting a turn: copilot-backend.ts interruptTurn over copilot-sdk.ts
\* abortSession, beside the messages, events and disconnects of a workspace.
\* =====================================================================
\* copilot-sdk.ts abortSession, as far as its first await: it returns at once
\* without a workspace or a session, and calls session.abort() otherwise.
abortSessionLikeSend(w) ==
  IF workspaceClients[w] = 0 THEN "NoSession"
  ELSE IF wsSession[workspaceClients[w]] = 0 THEN "NoSession"
  ELSE "abort"
abortSession(w) ==
  IF workspaceClients[w] = 0 THEN "returned"
  ELSE IF wsSession[workspaceClients[w]] = 0 THEN "returned"
  ELSE "abort"

\* copilot-backend.ts interruptTurn(workspaceId): await abortSession(workspaceId).
BeginInterrupt(k) ==
  LET w == workspaceClients["W"] IN
  /\ FreeSlot(k)
  /\ IF abortSession("W") = "abort"
     THEN /\ Suspend(k, "interrupt", "ab_abort", w, wsSession[w], NoId)
          /\ UNCHANGED lastDone
     ELSE /\ lastDone' = [op |-> "interrupt", sid |-> NoId,
                          ok |-> abortSession("W") = "returned"]
          /\ UNCHANGED calls
  /\ UNCHANGED <<workspaceClients, wsClient, wsSession, sessions>>
  /\ UNCHANGED nonSdkVars

\* await workspace.session.abort() returns: the backend acknowledges.
AbortReturns(k) ==
  /\ Completes(k, "ab_abort")
  /\ sessions[calls[k].h].live
  /\ Finish(k, "interrupt", NoId, TRUE)
  /\ UNCHANGED <<workspaceClients, wsClient, wsSession, sessions>>
  /\ UNCHANGED nonSdkVars

\* The request is rejected: the session was destroyed under it.
AbortThrows(k) ==
  /\ Completes(k, "ab_abort")
  /\ ~sessions[calls[k].h].live
  /\ Finish(k, "interrupt", NoId, FALSE)
  /\ UNCHANGED <<workspaceClients, wsClient, wsSession, sessions>>
  /\ UNCHANGED nonSdkVars

NextInterrupt ==
  \/ \E t \in ParentThreads : SendUserMessage(t)
  \/ \E type \in NativeEventTypes, id \in NativeEventIds, hasData \in BOOLEAN :
       BackendEvent(type, id, hasData)
  \/ \E k \in CallIds, t \in PersistedSessionIds : SetActiveThreadId(k, t)
  \/ \E k \in CallIds : ResumeReturns(k)
  \/ \E k \in CallIds : ResumeThrows(k)
  \/ \E k \in CallIds : BeginDisconnect(k, "disconnect")
  \/ \E k \in CallIds : DisconnectDestroyReturns(k)
  \/ \E k \in CallIds : DisconnectStopReturns(k)
  \/ \E k \in CallIds : BeginInterrupt(k)
  \/ \E k \in CallIds : AbortReturns(k)
  \/ \E k \in CallIds : AbortThrows(k)

SpecInterrupt == InitThreads /\ [][NextInterrupt]_vars

\* =====================================================================
\* The life of a connection: copilot-backend.ts connectWorkspace over
\* copilot-sdk.ts connectWorkspace, and the exit of a backend process.
\* =====================================================================
\* clientOptions.autoRestart of connectWorkspace.
autoRestart == TRUE

CodexConnected == [workspace_id |-> "W", method |-> "codex/connected", params |-> NoData]

\* A canonical event emitted by a command, not for a native event.
CommandEmission(ev) == Emission(0, ev)

\* copilot-backend.ts connectWorkspace when the SDK's connectWorkspace
\* returns: the client is registered, the synthetic event is delivered, and
\* codex/connected is emitted.
BackendConnectReturns(k) ==
  LET ev == transformEvent("W", ConnectedEvent) IN
  /\ connectWorkspace(k)
  /\ received' = Append(received, [workspaceId |-> "W", event |-> ConnectedEvent])
  /\ emitted' = (IF globalEventCallback
                 THEN Append(emitted, Emission(Len(received) + 1, ev))
                 ELSE emitted) \o <<CommandEmission(CodexConnected)>>
  /\ UNCHANGED <<readerVars, smokeVars, removalVars, backendLog, globalEventCallback, translateVars, permissionVars, threadVars,
                 historyVars>>

\* new CopilotClient(...) throws: the SDK's catch logs and rethrows, and the
\* rejection leaves copilot-backend.ts connectWorkspace at its await.
BackendConnectThrows(k) ==
  /\ calls[k].pc = "c_new"
  /\ Finish(k, "connect", NoId, FALSE)
  /\ UNCHANGED <<workspaceClients, wsClient, wsSession, sessions>>
  /\ UNCHANGED nonSdkVars

\* The backend process of client c exits.  No handler of src observes it; with
\* autoRestart the SDK spawns the process again.
ProcessExits(c) ==
  /\ ~MicrotaskPending
  /\ wsClient[c] = "started"
  /\ sessions' = StoppedSessions(c)
  /\ wsClient' = [wsClient EXCEPT ![c] = IF autoRestart THEN "started" ELSE "exited"]
  /\ UNCHANGED <<workspaceClients, wsSession, calls, lastDone>>
  /\ UNCHANGED nonSdkVars

NextLifecycle ==
  \/ InitCopilotBackend
  \/ \E k \in CallIds : BeginDisconnect(k, "connect")
  \/ \E k \in CallIds : DisconnectDestroyReturns(k)
  \/ \E k \in CallIds : DisconnectStopReturns(k)
  \/ \E k \in CallIds : BackendConnectReturns(k)
  \/ \E k \in CallIds : BackendConnectThrows(k)
  \/ \E k \in CallIds : BeginCreate(k)
  \/ \E k \in CallIds : CreateDestroyReturns(k)
  \/ \E k \in CallIds : CreateReturns(k)
  \/ \E k \in CallIds : CreateThrows(k)
  \/ \E c \in Clients : ProcessExits(c)

SpecLifecycle == InitSdk /\ [][NextLifecycle]_vars

\* =====================================================================
\* A snapshot's round trip: a thread state is saved, the app is launched
\* again with empty state, and the snapshot on disk is loaded.
\* =====================================================================
\* The live thread lists a workspace may have, newest first.
SnapshotThreadLists ==
  {<<>>, <<ThreadSummary("s1", 1)>>, <<ThreadSummary("n1", 2)>>,
   <<ThreadSummary("n1", 2), ThreadSummary("s1", 1)>>}

EmptyClosure ==
  Closure(EmptyMap, [t \in ThreadIds |-> <<>>], [t \in ThreadIds |-> NoId],
          [w \in WorkspaceIds |-> NoId])

\* A later version of the app wrote the snapshot: another version number and
\* a field this version does not know.
NewerSnapshot(snapshot) ==
  [f \in DOMAIN snapshot \cup {"pinnedThreads"} |->
     IF f = "version" THEN 2
     ELSE IF f = "pinnedThreads" THEN <<"s1">>
     ELSE snapshot[f]]

NewerWriter ==
  /\ persisted # NoSnapshot
  /\ persisted.version = 1
  /\ historyLoad.pc = "idle"
  /\ persisted' = NewerSnapshot(persisted)
  /\ UNCHANGED <<sdkVars, backendLog, adapterVars, threadVars, threadsByWorkspace,
                 historyLoadedRef, loadedThreadsRef, historyLoad, historySaveTimers,
                 historySaveTimerRef, saveVars>>

\* The app is closed and launched again: the disk holds the snapshot last
\* written, and useThreads starts from its initial state.
Relaunch ==
  /\ written["W"] # NoSnapshot
  /\ persisted = NoSnapshot
  /\ persisted' = written["W"]
  /\ threadsByWorkspace' = EmptyMap
  /\ itemsByThread' = [t \in ThreadIds |-> <<>>]
  /\ threadParentById' = [t \in ThreadIds |-> NoId]
  /\ activeThreadIdByWorkspace' = [w \in WorkspaceIds |-> NoId]
  /\ historyLoadedRef' = {}
  /\ loadedThreadsRef' = {}
  /\ historyLoad' = [pc |-> "idle", closure |-> Closure(EmptyMap, EmptyMap, EmptyMap, EmptyMap)]
  /\ historySaveTimers' = {}
  /\ historySaveTimerRef' = {}
  /\ lastSavedHistoryRef' = [w \in WorkspaceIds |-> <<>>]
  /\ writes' = [w \in WorkspaceIds |-> 0]
  /\ written' = [w \in WorkspaceIds |-> NoSnapshot]
  /\ UNCHANGED <<sdkVars, backendLog, adapterVars, threadOnlyVars, now>>

InitSnapshot ==
  /\ NothingConnected
  /\ backendLog = [s \in SessionIds |-> <<>>]
  /\ historyLoadedRef = {}
  /\ loadedThreadsRef = {}
  /\ historyLoad = [pc |-> "idle", closure |-> Closure(EmptyMap, EmptyMap, EmptyMap, EmptyMap)]
  /\ historySaveTimers = {}
  /\ historySaveTimerRef = {}
  /\ lastSavedHistoryRef = [w \in WorkspaceIds |-> <<>>]
  /\ writes = [w \in WorkspaceIds |-> 0]
  /\ written = [w \in WorkspaceIds |-> NoSnapshot]
  /\ InitAdapterState(FALSE)
  /\ persisted = NoSnapshot
  /\ threadStatusById = [t \in ThreadIds |-> Idle]
  /\ activeTurnIdByThread = [t \in ThreadIds |-> NoId]
  /\ unreadByThread = [t \in ThreadIds |-> FALSE]
  /\ detachedReviewNoticeRef = {}
  /\ now = 0
  /\ lastSend = "none"
  /\ reviewExits = {}
  /\ threadActivity = [t \in ThreadIds |-> NoTimestamp]
  /\ \E threads \in SnapshotThreadLists :
       threadsByWorkspace = [w \in WorkspaceIds |-> threads]
  /\ \E l1 \in {<<>>, SeedLog}, l2 \in {<<>>, SeedLog} :
       itemsByThread = [t \in ThreadIds |-> IF t = "s1" THEN l1
                                            ELSE IF t = "n1" THEN l2 ELSE <<>>]
  /\ \E parent \in {NoId, "s1"} :
       threadParentById = [t \in ThreadIds |-> IF t = "n1" THEN parent ELSE NoId]
  /\ \E active \in {NoId, "s1", "n1"} :
       activeThreadIdByWorkspace = [w \in WorkspaceIds |-> active]

NextSnapshot ==
  \/ SaveEffectRuns
  \/ Elapse
  \/ \E timer \in historySaveTimers : SaveTimerFires(timer)
  \/ Relaunch
  \/ NewerWriter
  \/ HistoryLoadStarts
  \/ HistoryLoadReturns

SpecSnapshot == InitSnapshot /\ [][NextSnapshot]_vars

\* =====================================================================
\* Removing a thread: useThreads removeThread, beside threads that start
\* and pins the user sets.
\* =====================================================================
WithoutThread(threads, threadId) ==
  SelectSeq(threads, LAMBDA thread : thread.id # threadId)

\* A removal that would wait for the backend before it touches local state.
removeThreadAfterArchive(workspaceId, threadId) ==
  /\ archives' = [archives EXCEPT ![threadId] = "requested"]
  /\ UNCHANGED <<pinnedThreads, threadsByWorkspace>>

\* removeThread(workspaceId, threadId): unpinThread, dispatch removeThread,
\* void archiveThread.
removeThread(workspaceId, threadId) ==
  /\ pinnedThreads' = pinnedThreads \ {threadId}
  /\ threadsByWorkspace' =
       SetKey(threadsByWorkspace, workspaceId,
              WithoutThread(Get(threadsByWorkspace, workspaceId, <<>>), threadId))
  /\ archives' = [archives EXCEPT ![threadId] = "requested"]

RemoveThread(t) ==
  /\ t \in ThreadIdsOf(Get(threadsByWorkspace, "W", <<>>))
  /\ archives[t] # "requested"
  /\ removeThread("W", t)
  /\ UNCHANGED <<itemsByThread, threadParentById, activeThreadIdByWorkspace>>
  /\ SaveEffect
  /\ UNCHANGED <<readerVars, smokeVars, sdkVars, backendLog, routeVars, translateVars, permissionVars, threadOnlyVars,
                 now, persisted, historyLoadedRef, loadedThreadsRef, historyLoad, saveVars>>

\* The user pins a thread of the list.
PinThread(t) ==
  /\ t \in ThreadIdsOf(Get(threadsByWorkspace, "W", <<>>))
  /\ t \notin pinnedThreads
  /\ pinnedThreads' = pinnedThreads \cup {t}
  /\ UNCHANGED <<readerVars, smokeVars, sdkVars, backendLog, routeVars, translateVars, permissionVars, archives,
                 threadVars, historyVars>>

\* The promise of archiveThread settles; nothing waits for it.
ArchiveReturns(t) ==
  /\ archives[t] = "requested"
  /\ archives' = [archives EXCEPT ![t] = "archived"]
  /\ UNCHANGED <<readerVars, smokeVars, sdkVars, backendLog, routeVars, translateVars, permissionVars, pinnedThreads,
                 threadVars, historyVars>>

ArchiveThrows(t) ==
  /\ archives[t] = "requested"
  /\ archives' = [archives EXCEPT ![t] = "failed"]
  /\ UNCHANGED <<readerVars, smokeVars, sdkVars, backendLog, routeVars, translateVars, permissionVars, pinnedThreads,
                 threadVars, historyVars>>

NextRemoval ==
  \/ \E t \in HistoryThreads : ThreadStarted(t)
  \/ \E t \in HistoryThreads : PinThread(t)
  \/ \E t \in HistoryThreads : RemoveThread(t)
  \/ \E t \in HistoryThreads : ArchiveReturns(t)
  \/ \E t \in HistoryThreads : ArchiveThrows(t)

SpecRemoval == InitHistory /\ [][NextRemoval]_vars

\* =====================================================================
\* One streamed assistant message: its deltas and the message that
\* completes it, delivered by the session of a connected workspace.
\* =====================================================================
\* The events of the message; each event of a session has an id of its own,
\* or none.
MessageEventIds == {Undefined, "e1", "e2"}
MessageEvents ==
  {[NativeEvent(type, id) EXCEPT !.data = FullData] :
     type \in {"assistant.message_delta", "assistant.message"}, id \in MessageEventIds}

NextStream ==
  \/ \E k \in CallIds, t \in PersistedSessionIds : SetActiveThreadId(k, t)
  \/ \E k \in CallIds : ResumeReturns(k)
  \/ \E h \in Handles, event \in MessageEvents : SessionDelivers(h, event)

SpecStream == InitThreads /\ [][NextStream]_vars

\* =====================================================================
\* scripts/acp-smoke.mjs: a JSON-RPC client over the agent's stdio.  It
\* sends initialize, session/new and session/prompt, each after the
\* response to the one before, while a line reader sorts what the agent
\* writes into responses and notifications.
\* =====================================================================
MaxLines == 3

initId == 0
newId == 1
promptId == 2

\* A JSON-RPC id is a number or a string of digits.
NumId(v) == [t |-> "number", v |-> v]
StrId(v) == [t |-> "string", v |-> v]

\* String(id): a number and the string of its digits give the same key.
Digits == <<"0", "1", "2", "3">>
String(id) == Digits[id.v + 1]

\* A parsed JSON value: an object with the members the script looks at (an
\* absent member is NoMsgId, Undefined or body "none"), or a bare number.
\* body "result" is a response the script accepts, "invalid" one that has a
\* result without the member the script reads from it, "error" an error.
Msg(id, method, body) == [type |-> "object", id |-> id, method |-> method, body |-> body]
BareNumber == [type |-> "number", id |-> NoMsgId, method |-> Undefined, body |-> "none"]

SentIdValues == {initId, newId, promptId}
Responses ==
  {Msg(NumId(v), Undefined, body) : v \in SentIdValues, body \in {"result", "invalid", "error"}}
    \cup {Msg(StrId(initId), Undefined, "result"), Msg(NumId(3), Undefined, "result"),
          Msg(NumId(initId), "session/update", "result")}
JsonValues ==
  Responses
    \cup {Msg(NoMsgId, "session/update", "none"),
          Msg(NumId(newId), "session/request_permission", "none"),
          Msg(NoMsgId, Undefined, "none"),
          BareNumber}

\* A line of stdout: the text of a JSON value, or text that is not JSON.
NotJson == [json |-> FALSE, value |-> NoResponse]
Lines == {[json |-> TRUE, value |-> v] : v \in JsonValues} \cup {NotJson}

\* JSON.parse(line): the value, or a SyntaxError.
JSONparse(line) ==
  IF line.json THEN [threw |-> FALSE, msg |-> line.value] ELSE [threw |-> TRUE, msg |-> NoResponse]

\* A test that takes every object with an id for a response.
IsResponseWithId(msg) ==
  msg.type = "object" /\ msg.id # NoMsgId

\* ("id" in msg) && ("result" in msg || "error" in msg)
IsResponse(msg) ==
  msg.type = "object" /\ msg.id # NoMsgId /\ msg.body # "none"

\* ("method" in msg) && typeof msg.method === "string"
IsNotification(msg) ==
  msg.type = "object" /\ msg.method # Undefined

Dispatch(msg) ==
  IF IsResponse(msg)
    THEN /\ pendingById' = [pendingById EXCEPT ![String(msg.id)] = msg]
         /\ UNCHANGED notifications
    ELSE IF IsNotification(msg)
      THEN /\ notifications' = Append(notifications, msg)
           /\ UNCHANGED pendingById
      ELSE UNCHANGED <<pendingById, notifications>>

\* The stdout line handler without its try/catch: the SyntaxError leaves the
\* stream's data listener uncaught and ends the process.
onStdoutLineUnguarded(line) ==
  /\ transcript' = Append(transcript, line)
  /\ LET parsed == JSONparse(line) IN
       IF parsed.threw
         THEN /\ smokePc' = "crashed"
              /\ UNCHANGED <<pendingById, notifications>>
         ELSE /\ Dispatch(parsed.msg)
              /\ UNCHANGED smokePc

\* readLines(child.stdout, (line) => { ... })
onStdoutLine(line) ==
  /\ transcript' = Append(transcript, line)
  /\ LET parsed == JSONparse(line) IN
       IF parsed.threw
         THEN UNCHANGED <<pendingById, notifications>>
         ELSE Dispatch(parsed.msg)
  /\ UNCHANGED smokePc

\* The request main() is waiting on, and what it does once it is answered.
Waiting == {"initialize", "session/new", "session/prompt"}
RequestId(pc) ==
  CASE pc = "initialize" -> initId
    [] pc = "session/new" -> newId
    [] pc = "session/prompt" -> promptId
NextRequest(pc) ==
  CASE pc = "initialize" -> "session/new"
    [] pc = "session/new" -> "session/prompt"
    [] pc = "session/prompt" -> "done"
has(key) == pendingById[key] # NoResponse

\* main() up to its first await: spawn, the two readers, send(initialize).
Main ==
  /\ smokePc = "start"
  /\ sentIds' = Append(sentIds, initId)
  /\ smokePc' = "initialize"
  /\ UNCHANGED <<pendingById, notifications, transcript>>
  /\ UNCHANGED <<readerVars, sdkVars, backendLog, routeVars, translateVars, permissionVars, removalVars,
                 threadVars, historyVars>>

\* The agent writes a line while its process runs (the script kills it at
\* the end, and nothing is read once the script's own process has ended).
StdoutLine(line) ==
  /\ smokePc \notin {"start", "done", "crashed"}
  /\ Len(transcript) < MaxLines
  /\ onStdoutLine(line)
  /\ UNCHANGED sentIds
  /\ UNCHANGED <<readerVars, sdkVars, backendLog, routeVars, translateVars, permissionVars, removalVars,
                 threadVars, historyVars>>

\* waitFor sees the response: the checks on it, then the next request, or
\* child.kill() and the report after the last one.
WaitReturns ==
  /\ smokePc \in Waiting
  /\ has(String(NumId(RequestId(smokePc))))
  /\ LET resp == pendingById[String(NumId(RequestId(smokePc)))] IN
       IF resp.body # "result"
         THEN /\ smokePc' = "failed"
              /\ UNCHANGED sentIds
         ELSE /\ smokePc' = NextRequest(smokePc)
              /\ sentIds' = IF smokePc = "session/prompt" THEN sentIds
                            ELSE Append(sentIds, RequestId(NextRequest(smokePc)))
  /\ UNCHANGED <<pendingById, notifications, transcript>>
  /\ UNCHANGED <<readerVars, sdkVars, backendLog, routeVars, translateVars, permissionVars, removalVars,
                 threadVars, historyVars>>

\* waitFor gives up: main() rejects, the report says ok: false.  The child
\* is not killed on this path, so its lines keep arriving.
WaitTimesOut ==
  /\ smokePc \in Waiting
  /\ ~has(String(NumId(RequestId(smokePc))))
  /\ smokePc' = "failed"
  /\ UNCHANGED <<sentIds, pendingById, notifications, transcript>>
  /\ UNCHANGED <<readerVars, sdkVars, backendLog, routeVars, translateVars, permissionVars, removalVars,
                 threadVars, historyVars>>

\* child.on("error"): fail() throws inside the listener, which nothing
\* catches (the binary could not be spawned, so no line was ever read).
ChildError ==
  /\ smokePc = "initialize"
  /\ transcript = <<>>
  /\ smokePc' = "crashed"
  /\ UNCHANGED <<sentIds, pendingById, notifications, transcript>>
  /\ UNCHANGED <<readerVars, sdkVars, backendLog, routeVars, translateVars, permissionVars, removalVars,
                 threadVars, historyVars>>

NextSmoke ==
  \/ Main
  \/ \E line \in Lines : StdoutLine(line)
  \/ WaitReturns
  \/ WaitTimesOut
  \/ ChildError

SpecSmoke == InitSdk /\ [][NextSmoke]_vars

\* =====================================================================
\* Turns: sendUserMessage and the turn events of the backend, with the
\* canonical events they emit and the session that receives the prompt,
\* while threads are started and resumed in the workspace.
\* =====================================================================
MaxEmitted == 3

TurnThreads == SessionIds
TurnEvents ==
  {NativeEvent(type, "e1") : type \in {"assistant.turn_start", "assistant.turn_end", "session.idle"}}

UserMessage == Item("u1", "userMessage", "text")

\* workspace.session.send(messageOptions): the prompt goes to the session the
\* workspace object holds.
SessionSend(w) ==
  IF sendMessage(w) = "sent"
  THEN [backendLog EXCEPT ![sessions[wsSession[workspaceClients[w]]].sid] = Append(@, UserMessage)]
  ELSE backendLog

\* copilot-backend.ts sendUserMessage: emitAppServerEvent(turn/started), then
\* copilotSdk.sendMessage, which throws when the workspace has no session.
TurnSend(t) ==
  /\ ~MicrotaskPending
  /\ Len(emitted) < MaxEmitted
  /\ sendUserMessage("W", t)
  /\ emitted' = Append(emitted, CommandEmission(TurnStartedEvent("W", t, TurnId(now))))
  /\ backendLog' = SessionSend("W")
  /\ UNCHANGED <<sdkVars, globalEventCallback, received, translateVars, permissionVars, removalVars,
                 readerVars, smokeVars, historyVars, threadParentById, activeThreadIdByWorkspace,
                 unreadByThread, detachedReviewNoticeRef, now, reviewExits, threadActivity>>

\* The session delivers a turn event: translated, emitted, applied.
TurnEvent(h, event) ==
  /\ ~MicrotaskPending
  /\ Len(emitted) < MaxEmitted
  /\ sessions[h].live
  /\ sessions[h].subs > 0
  /\ Deliver("W", event)
  /\ ApplyEvent(transformEvent("W", event))
  /\ UNCHANGED <<sdkVars, backendLog, globalEventCallback, translateVars, permissionVars, removalVars,
                 readerVars, smokeVars, historyVars, threadParentById, activeThreadIdByWorkspace,
                 unreadByThread, detachedReviewNoticeRef, now, lastSend, reviewExits, threadActivity>>

NextTurn ==
  \/ \E t \in TurnThreads : TurnSend(t)
  \/ \E h \in Handles, event \in TurnEvents : TurnEvent(h, event)
  \/ \E k \in CallIds : BeginCreate(k)
  \/ \E k \in CallIds : CreateDestroyReturns(k)
  \/ \E k \in CallIds : CreateReturns(k)
  \/ \E k \in CallIds, sid \in SessionIds : BeginResume(k, sid)
  \/ \E k \in CallIds : ResumeDestroyReturns(k)
  \/ \E k \in CallIds : ResumeReturns(k)

SpecTurn == InitThreads /\ [][NextTurn]_vars


\* =====================================================================
\* handleReviewExited on every parent link and parent status: the thread
\* has no parent, is its own parent, or has a parent that is Reviewing or
\* not.
\* =====================================================================
Reviewing == markReviewing([t \in ThreadIds |-> Idle], "s1", TRUE)["s1"]
ParentLinks ==
  {links \in [ThreadIds -> ThreadIds \cup {NoId}] :
     \A t \in ThreadIds : IF t \in ReviewThreads THEN links[t] \in {NoId, t, "s1", "W"}
                          ELSE links[t] = NoId}
ParentStatuses ==
  {status \in [ThreadIds -> {Idle, Reviewing}] :
     \A t \in ThreadIds : status[t] = Reviewing => t \in {"s1", "n1"}}

InitReviewExit ==
  /\ workspaceClients = [w \in WorkspaceIds |-> 1]
  /\ wsClient = [c \in Clients |-> IF c = 1 THEN "created" ELSE "none"]
  /\ wsSession = [c \in Clients |-> 0]
  /\ sessions = [h \in Handles |-> NoSession]
  /\ calls = [k \in CallIds |-> IdleCall]
  /\ lastDone = NothingDone
  /\ backendLog = [s \in SessionIds |-> IF s \in PersistedSessionIds THEN SeedLog ELSE <<>>]
  /\ itemsByThread = [t \in ThreadIds |-> <<>>]
  /\ threadParentById \in ParentLinks
  /\ threadStatusById \in ParentStatuses
  /\ activeTurnIdByThread =
       [t \in ThreadIds |-> IF threadStatusById[t] = Reviewing THEN TurnId(0) ELSE NoId]
  /\ activeThreadIdByWorkspace = [w \in WorkspaceIds |-> NoId]
  /\ unreadByThread = [t \in ThreadIds |-> FALSE]
  /\ detachedReviewNoticeRef = {}
  /\ now = 0
  /\ lastSend = "none"
  /\ reviewExits = {}
  /\ threadActivity = [t \in ThreadIds |-> NoTimestamp]
  /\ InitHistoryState
  /\ InitAdapterState(TRUE)
  /\ persisted = NoSnapshot

NextReviewExit ==
  \/ \E R \in ReviewThreads : ReviewExited(R)
  \/ \E k \in CallIds, t \in PersistedSessionIds : SetActiveThreadId(k, t)
  \/ \E k \in CallIds : ResumeReturns(k)
  \/ Tick

SpecReviewExit == InitReviewExit /\ [][NextReviewExit]_vars


\* =====================================================================
\* readLines(stream, onLine) of scripts/acp-smoke.mjs: the stream's chunks
\* are joined in a buffer, and every newline-terminated piece of it is
\* trimmed and, unless empty, passed to onLine.  Text is a sequence of
\* characters.
\* =====================================================================
MaxStream == 4

Newline == "\n"
Characters == {"a", "b", " ", Newline}
Whitespace == {" ", Newline}
Chunks(maxLen) == UNION {[1..n -> Characters] : n \in 1..maxLen}

\* String.prototype.trim
RECURSIVE trim(_)
trim(text) ==
  IF text = <<>> THEN text
  ELSE IF Head(text) \in Whitespace THEN trim(Tail(text))
  ELSE IF text[Len(text)] \in Whitespace THEN trim(SubSeq(text, 1, Len(text) - 1))
  ELSE text

\* buffer.indexOf("\n"), from 1; 0 when there is none.
indexOf(text) ==
  IF \E i \in 1..Len(text) : text[i] = Newline
  THEN CHOOSE i \in 1..Len(text) :
         text[i] = Newline /\ \A j \in 1..(i - 1) : text[j] # Newline
  ELSE 0

\* The while loop of the data listener: cut lines off the buffer as long as
\* it holds a newline.
RECURSIVE cutLines(_, _)
cutLines(buf, out) ==
  LET idx == indexOf(buf) IN
  IF idx = 0 THEN [buffer |-> buf, lines |-> out]
  ELSE LET line == SubSeq(buf, 1, idx - 1)
           trimmed == trim(line)
       IN cutLines(SubSeq(buf, idx + 1, Len(buf)),
                   IF Len(trimmed) = 0 THEN out ELSE Append(out, trimmed))

\* A listener that starts from the chunk alone, keeping no buffer.
onDataUnbuffered(buf, chunk) == cutLines(chunk, <<>>)

\* stream.on("data", (chunk) => { buffer += chunk; while (true) { ... } })
onData(buf, chunk) == cutLines(buf \o chunk, <<>>)

\* The stream emits a chunk.
StreamData(chunk) ==
  /\ Len(streamRead) + Len(chunk) <= MaxStream
  /\ chunksRead' = chunksRead + 1
  /\ streamRead' = streamRead \o chunk
  /\ buffer' = onData(buffer, chunk).buffer
  /\ delivered' = delivered \o onData(buffer, chunk).lines
  /\ UNCHANGED <<sdkVars, backendLog, routeVars, translateVars, permissionVars, removalVars,
                 smokeVars, threadVars, historyVars>>

NextReader ==
  \E chunk \in Chunks(MaxStream) : StreamData(chunk)

SpecReader == InitSdk /\ [][NextReader]_vars


\* =====================================================================
\* Forwarding: which session objects still hand their events to the global
\* callback while sessions are created and the workspace is disconnected.
\* =====================================================================
NextForwarding ==
  \/ \E k \in CallIds : BeginCreate(k)
  \/ \E k \in CallIds : CreateDestroyReturns(k)
  \/ \E k \in CallIds : CreateDestroyThrows(k)
  \/ \E k \in CallIds : CreateReturns(k)
  \/ \E k \in CallIds : CreateThrows(k)
  \/ \E k \in CallIds : BeginDisconnect(k, "disconnect")
  \/ \E k \in CallIds : DisconnectDestroyReturns(k)
  \/ \E k \in CallIds : DisconnectDestroyThrows(k)
  \/ \E k \in CallIds : DisconnectStopReturns(k)
  \/ \E k \in CallIds : DisconnectStopThrows(k)
  \/ \E h \in Handles, event \in RoutedEvents : SessionDelivers(h, event)

SpecForwarding == InitThreads /\ [][NextForwarding]_vars


\* =====================================================================
\* Archiving: removeThread hands the thread to archiveThread, and
\* copilot-backend.ts archiveThread(workspaceId) destroys the session the
\* workspace holds.  The call slot keeps the thread that was archived.
\* =====================================================================
\* copilot-backend.ts archiveThread -> copilot-sdk.ts destroySession, up to
\* its await, called for thread t.
ArchiveThread(k, t) ==
  LET w == workspaceClients["W"] IN
  /\ FreeSlot(k)
  /\ IF w = 0 \/ (w # 0 /\ wsSession[w] = 0)
     THEN /\ lastDone' = [op |-> "destroy", sid |-> t, ok |-> TRUE]
          /\ UNCHANGED calls
     ELSE /\ Suspend(k, "destroy", "ds_destroy", w, wsSession[w], t)
          /\ UNCHANGED lastDone
  /\ UNCHANGED <<workspaceClients, wsClient, wsSession, sessions>>
  /\ UNCHANGED nonSdkVars

NextArchive ==
  \/ \E k \in CallIds, t \in SessionIds : ArchiveThread(k, t)
  \/ \E k \in CallIds : DestroyReturns(k)
  \/ \E k \in CallIds : BeginCreate(k)
  \/ \E k \in CallIds : CreateDestroyReturns(k)
  \/ \E k \in CallIds : CreateReturns(k)
  \/ \E k \in CallIds, t \in PersistedSessionIds : SetActiveThreadId(k, t)
  \/ \E k \in CallIds : ResumeDestroyReturns(k)
  \/ \E k \in CallIds : ResumeReturns(k)

SpecArchive == InitThreads /\ [][NextArchive]_vars


\* ---------------------------------------------------------------------
\* A thread is selected while the history of the workspace loads.
\* setActiveThreadId(threadId): the selection is dispatched, which commits a
\* new render and runs the save effect; the resume it starts in the
\* background finds no client for the workspace and fails.
SelectThread(t) ==
  /\ workspaceClients["W"] = 0
  /\ activeThreadIdByWorkspace["W"] # t
  /\ activeThreadIdByWorkspace' = [activeThreadIdByWorkspace EXCEPT !["W"] = t]
  /\ lastDone' = [op |-> "resume", sid |-> t, ok |-> FALSE]
  /\ UNCHANGED <<threadsByWorkspace, itemsByThread, threadParentById>>
  /\ SaveEffect
  /\ UNCHANGED <<workspaceClients, wsClient, wsSession, sessions, calls, backendLog, adapterVars,
                 threadOnlyVars, now, persisted, historyLoadedRef, loadedThreadsRef,
                 historyLoad, saveVars>>

NextSelect ==
  \/ HistoryLoadStarts
  \/ HistoryLoadReturns
  \/ HistoryLoadThrows
  \/ \E t \in HistoryThreads : SelectThread(t)
  \/ \E t \in HistoryThreads : ThreadStarted(t)
  \/ Elapse

SpecSelect == InitHistory /\ [][NextSelect]_vars


\* ---------------------------------------------------------------------
\* Backend sessions and clients of the workspace that are alive.
LiveSessions == {<<sessions[h].client, sessions[h].sid>> : h \in {g \in Handles : sessions[g].live}}
StartedClients == {c \in Clients : wsClient[c] = "started"}

\* C3: at most one backend session of the workspace is live (created or
\* resumed and not destroyed) at any time, under every interleaving of
\* createSession, resumeSession, destroySession and disconnectWorkspace.
C3_AtMostOneLiveSession == Cardinality(LiveSessions) <= 1

\* C4: at most one started backend client exists for the workspace, and it is
\* the one registered in the workspace map; a client that is no longer
\* registered has been stopped.
C4_OneStartedClientRegistered ==
  /\ Cardinality(StartedClients) <= 1
  /\ \A c \in StartedClients : workspaceClients["W"] = c

\* ---------------------------------------------------------------------
Busy(t) == threadStatusById[t].isProcessing \/ threadStatusById[t].isReviewing
IsNotice(item, R) == item.text = NoticeText(R)
NoticeCount(P, R) ==
  Cardinality({i \in 1..Len(itemsByThread[P]) : IsNotice(itemsByThread[P][i], R)})

\* C1: a sendUserMessage for a thread that is Processing is rejected with
\* Busy, and it changes no thread state: status, active turn and item logs
\* are as before, so no second turn/started has been applied.
C1_BusySendRejected ==
  [][\A t \in ParentThreads :
       (threadStatusById[t].isProcessing /\ SendUserMessage(t))
         => (lastSend' = "Busy" /\ UNCHANGED statusVars)]_vars

\* C2: for every thread, the active turn id is non-null if and only if the
\* thread is Processing or Reviewing; this holds after every canonical event
\* and after the exit of a detached review has been handled on its parent.
C2_ActiveTurnIffBusy ==
  \A t \in ThreadIds : (activeTurnIdByThread[t] # NoId) <=> Busy(t)

\* C2 witness: the exit of a detached review has cleared its parent, which
\* is idle with no active turn, while another thread is Processing with one.
C2_ExitClearedParent ==
  /\ \E R \in reviewExits :
       /\ NoticeCount(threadParentById[R], R) = 1
       /\ ~Busy(threadParentById[R])
       /\ activeTurnIdByThread[threadParentById[R]] = NoId
  /\ \E t \in ThreadIds :
       threadStatusById[t].isProcessing /\ activeTurnIdByThread[t] # NoId

\* C5: once an exit of detached review R has been handled, the item log of
\* its parent P holds exactly one notice that refers to R.
C5_ExactlyOneNotice ==
  \A R \in reviewExits : NoticeCount(threadParentById[R], R) = 1

\* C8: when resumeThread(W, T) has completed, the local item log of T is
\* the item log the backend holds for T.
C8_ResumeReplacesLog ==
  (lastDone.op = "resume" /\ lastDone.ok)
    => itemsByThread[lastDone.sid] = backendLog[lastDone.sid]

\* ---------------------------------------------------------------------
LiveThreadIds(threads) == ThreadIdsOf(Get(threads, "W", <<>>))
\* The thread state a snapshot holds: all of it but the time of saving.
ThreadStateOf(snapshot) == [snapshot EXCEPT !.savedAt = 0]

\* C6: applying a loaded snapshot removes no thread from the live thread
\* list, whenever the thread entered the list, and adds only persisted
\* threads that were not live.
C6_MergeKeepsLiveThreads ==
  [][HistoryLoadReturns =>
       /\ LiveThreadIds(threadsByWorkspace) \subseteq LiveThreadIds(threadsByWorkspace')
       /\ LiveThreadIds(threadsByWorkspace') \ LiveThreadIds(threadsByWorkspace)
            \subseteq ThreadIdsOf(persisted.threads)]_vars

\* C7: applying a loaded snapshot leaves every item log that is non-empty at
\* that moment as it is.
C7_MergeKeepsLiveItems ==
  [][HistoryLoadReturns =>
       \A t \in ThreadIds :
         itemsByThread[t] # <<>> => itemsByThread'[t] = itemsByThread[t]]_vars

\* C9: a save pass over thread state that equals the state written last for
\* the workspace performs no write.
C9_UnchangedStateNotRewritten ==
  [][\A timer \in historySaveTimers, w \in WorkspaceIds :
       (/\ SaveTimerFires(timer)
        /\ written[w] # NoSnapshot
        /\ ThreadStateOf(written[w]) =
             ThreadStateOf(buildThreadHistorySnapshot(timer.closure, w, now)))
         => writes'[w] = writes[w]]_vars

\* C10: at most one save timer is pending, and it holds the state as of the
\* last change; when it fires, after the burst, it issues exactly one write
\* for each workspace, with that state; once it has fired the snapshot
\* written last is the current state.
C10_OneWritePerBurst ==
  /\ [](/\ Cardinality(historySaveTimers) <= 1
        /\ \A timer \in historySaveTimers : timer.closure = CurrentClosure
        /\ \A w \in WorkspaceIdsOf(CurrentClosure) :
             historySaveTimers = {} =>
               /\ writes[w] >= 1
               /\ ThreadStateOf(written[w]) =
                    ThreadStateOf(buildThreadHistorySnapshot(CurrentClosure, w, now)))
  /\ [][\A timer \in historySaveTimers :
          SaveTimerFires(timer) =>
            \A w \in WorkspaceIdsOf(timer.closure) :
              /\ writes'[w] = writes[w] + 1
              /\ written'[w] = buildThreadHistorySnapshot(CurrentClosure, w, now)]_vars

\* C10 witness: two threads entered the list one after the other within one
\* window, and the one timer left has fired and issued the only write.
C10_BurstWritten ==
  /\ historyLoad.pc = "idle"
  /\ Len(Get(threadsByWorkspace, "W", <<>>)) = 2
  /\ historySaveTimers = {}
  /\ writes["W"] = 1
  /\ Len(written["W"].threads) = 2

C13_TurnStartMarksProcessing ==
  /\ [](\A w \in TranslateWorkspaces :
          LET ev == transformEvent(w, NativeEvent("assistant.turn_start", "e1"))
          IN /\ ev.workspace_id = w
             /\ ev.method = "turn/started"
             /\ ev.params.turn = [id |-> "e1", threadId |-> w])
  /\ [][\A hasData \in BOOLEAN :
          BackendEvent("assistant.turn_start", "e1", hasData) =>
            /\ threadStatusById'["W"].isProcessing
            /\ activeTurnIdByThread'["W"] = "e1"]_vars

\* C13 witness: the workspace's thread is Processing the turn the backend named.
C13_BackendTurnActive ==
  /\ threadStatusById["W"].isProcessing
  /\ activeTurnIdByThread["W"] = "e1"

\* ---------------------------------------------------------------------
\* C14: every assistant.message_delta event, whatever it omits, is translated
\* without an exception to item/agentMessage/delta with threadId, itemId
\* (default "current") and delta (default "") set.
C14_DeltaAlwaysPopulated ==
  (canonical # NotTranslated /\ native.event.type = "assistant.message_delta") =>
    /\ canonical # Thrown
    /\ canonical.method = "item/agentMessage/delta"
    /\ canonical.params.threadId = native.workspaceId
    /\ canonical.params.itemId = Coalesce(native.event.id, "current")
    /\ canonical.params.delta = Coalesce(native.event.data.deltaContent, "")

\* ---------------------------------------------------------------------
\* C15: when exactly one thread T has a turn in flight that sendUserMessage
\* started, the backend's terminal event (session.idle, assistant.turn_end,
\* session.error) takes T out of Processing and clears its active turn id.
SentTurnIds == {TurnId(t) : t \in 0..MaxNow}
SentTurnInFlight(t) ==
  threadStatusById[t].isProcessing /\ activeTurnIdByThread[t] \in SentTurnIds

C15_TerminalEventReachesThread ==
  [][\A type \in {"session.idle", "assistant.turn_end", "session.error"},
        id \in NativeEventIds, T \in ParentThreads :
       (/\ BackendEvent(type, id, TRUE)
        /\ SentTurnInFlight(T)
        /\ \A u \in ParentThreads \ {T} : ~SentTurnInFlight(u))
       => (~threadStatusById'[T].isProcessing /\ activeTurnIdByThread'[T] = NoId)]_vars

\* ---------------------------------------------------------------------
\* C16: canonical events are emitted in the order in which their native
\* events were received, each being the translation of its native event.
C16_EmittedInReceivedOrder ==
  /\ \A i, j \in 1..Len(emitted) : i < j => emitted[i].src < emitted[j].src
  /\ \A i \in 1..Len(emitted) :
       /\ emitted[i].src \in 1..Len(received)
       /\ emitted[i].ev = transformEvent(received[emitted[i].src].workspaceId,
                                         received[emitted[i].src].event)

\* C16 witness: two different native events have been received and emitted.
C16_TwoEmitted ==
  /\ Len(emitted) = 2
  /\ emitted[1].ev # emitted[2].ev

\* ---------------------------------------------------------------------
\* C17: every native event handed to the global callback site, the synthetic
\* connected event included, has a canonical event emitted for it, unless its
\* translation throws.
C17_NoEventDropped ==
  \A i \in 1..Len(received) :
    transformEvent(received[i].workspaceId, received[i].event) # Thrown =>
      \E j \in 1..Len(emitted) : emitted[j].src = i

\* ---------------------------------------------------------------------
\* C18: the backend is answered "approved" for a permission request only
\* when the user has decided that request or its kind is on the allowlist
\* at the moment of the answer.
C18_ApprovedOnlyByDecision ==
  [][\A id \in PermissionIds, kind \in PermissionKinds :
       (/\ PermissionRequested(id, kind)
        /\ permissionAnswers'[id][Len(permissionAnswers'[id])] = Approved)
       => (id \in approvalDecisions \/ kind \in approvalAllowlist)]_vars

\* ---------------------------------------------------------------------
\* C19: interruptTurn while no thread has an active turn completes without
\* an error and changes no thread or session state: at once when the
\* workspace is not connected or has no session, and on the backend's
\* answer when it has a live, idle session.
NoActiveTurn ==
  \A t \in DOMAIN threadStatusById : ~Busy(t) /\ activeTurnIdByThread[t] = NoId
InterruptSucceeded == [op |-> "interrupt", sid |-> NoId, ok |-> TRUE]

Disconnected == [op |-> "disconnect", sid |-> NoId, ok |-> TRUE]

C21_DisconnectAlwaysSucceeds ==
  [][\A k \in CallIds :
       /\ (/\ calls[k].op = "disconnect"
           /\ calls[k].pc \in {"d_destroy", "d_stop"}
           /\ calls'[k].pc = "idle")
          => (lastDone' = Disconnected /\ workspaceClients'["W"] = 0)
       /\ (BeginDisconnect(k, "disconnect") /\ workspaceClients["W"] = 0)
          => /\ lastDone' = Disconnected
             /\ UNCHANGED <<workspaceClients, wsClient, wsSession, sessions, calls>>]_vars

\* C21 witness: a disconnect has completed although stop() did not take
\* effect: the client it served is unregistered and still running.
C21_DisconnectedAfterFailure ==
  /\ lastDone = Disconnected
  /\ workspaceClients["W"] = 0
  /\ \A k \in CallIds : calls[k].pc = "idle"
  /\ \E c \in Clients : wsClient[c] = "started"

\* ---------------------------------------------------------------------
\* C22: when the backend process of the connected workspace exits, the
\* workspace is no longer registered as connected, a canonical error event
\* is emitted, and the process is not running again.
ErrorEmitted ==
  /\ Len(emitted') = Len(emitted) + 1
  /\ emitted'[Len(emitted')].ev.method = "error"

C22_ExitMarksDisconnected ==
  [][\A c \in Clients :
       (ProcessExits(c) /\ workspaceClients["W"] = c) =>
         /\ workspaceClients'["W"] = 0
         /\ ErrorEmitted
         /\ wsClient'[c] # "started"]_vars

\* ---------------------------------------------------------------------
\* C23: when connectWorkspace fails to create the backend client, a
\* canonical error event is emitted, no codex/connected event is, and the
\* workspace is not registered.
C23_ConnectFailureSurfaced ==
  [][\A k \in CallIds :
       BackendConnectThrows(k) =>
         /\ ErrorEmitted
         /\ \A i \in 1..Len(emitted') :
              i > Len(emitted) => emitted'[i].ev.method # "codex/connected"
         /\ workspaceClients'["W"] = 0]_vars

\* ---------------------------------------------------------------------
\* C24: a history load that throws, or that returns null, ends as a load of
\* no snapshot: the load is over with no error left unhandled, and no thread
\* state has changed.
C24_FailedLoadChangesNothing ==
  [][(/\ historyLoad.pc = "loading"
      /\ historyLoad'.pc # "loading"
      /\ HistoryLoadThrows \/ persisted = NoSnapshot)
     => /\ historyLoad'.pc = "done"
        /\ UNCHANGED <<threadsByWorkspace, loadedThreadsRef, threadVars>>]_vars

\* C24 witness: the load of a workspace that has a snapshot on disk is over
\* and has populated nothing.
C24_LoadFailedWithSnapshotOnDisk ==
  /\ historyLoad.pc = "done"
  /\ persisted # NoSnapshot
  /\ threadsByWorkspace = EmptyMap
  /\ loadedThreadsRef = {}

\* ---------------------------------------------------------------------
\* C25: a snapshot of a newer version with a field this version does not
\* know is loaded like any other: its threads, item logs, parents and active
\* thread id populate the empty state.
Holds(snapshot, cl) ==
  LET ids == ThreadIdsOf(Get(cl.threadsByWorkspace, "W", <<>>))
  IN /\ ThreadIdsOf(snapshot.threads) = ids
     /\ \A t \in ids :
          /\ Get(snapshot.itemsByThread, t, <<>>) = cl.itemsByThread[t]
          /\ Get(snapshot.threadParentById, t, NoId) = cl.threadParentById[t]
     /\ snapshot.activeThreadId = cl.activeThreadIdByWorkspace["W"]

LoadedIntoEmptyState ==
  /\ HistoryLoadReturns
  /\ persisted # NoSnapshot
  /\ CurrentClosure = EmptyClosure

C25_NewerSnapshotStillLoads ==
  [][(LoadedIntoEmptyState /\ persisted.version # 1) => Holds(persisted, NextClosure)]_vars

\* C25 witness: the state holds two threads, a log and a parent link that
\* came from a snapshot of version 2.
C25_LoadedFromNewerSnapshot ==
  /\ persisted # NoSnapshot
  /\ persisted.version = 2
  /\ historyLoad.pc = "done"
  /\ Len(Get(threadsByWorkspace, "W", <<>>)) = 2
  /\ itemsByThread["s1"] = SeedLog
  /\ threadParentById["n1"] = "s1"

\* ---------------------------------------------------------------------
\* C26: the snapshot built from a thread state holds that state's threads,
\* their item logs, their parents and the active thread id, and loading it
\* into the empty state gives them back.
C26_SnapshotRoundTrip ==
  /\ [](written["W"] # NoSnapshot => Holds(written["W"], CurrentClosure))
  /\ [][LoadedIntoEmptyState => Holds(persisted, NextClosure)]_vars

\* C26 witness: after the relaunch the snapshot has given back two threads,
\* both logs, the parent link and the active thread.
C26_RestoredAfterRelaunch ==
  /\ persisted # NoSnapshot
  /\ historyLoad.pc = "done"
  /\ Len(Get(threadsByWorkspace, "W", <<>>)) = 2
  /\ itemsByThread["s1"] = SeedLog
  /\ itemsByThread["n1"] = SeedLog
  /\ threadParentById["n1"] = "s1"
  /\ activeThreadIdByWorkspace["W"] = "n1"

\* ---------------------------------------------------------------------
\* C27: removeThread leaves the thread unpinned and out of the workspace's
\* list with the archive merely requested, and the settling of the archive,
\* by success or by failure, changes neither the list nor the pins.
C27_RemovalDoesNotWaitForArchive ==
  [][\A t \in HistoryThreads :
       /\ RemoveThread(t) =>
            /\ t \notin ThreadIdsOf(Get(threadsByWorkspace', "W", <<>>))
            /\ t \notin pinnedThreads'
            /\ archives'[t] = "requested"
       /\ (ArchiveReturns(t) \/ ArchiveThrows(t)) =>
            UNCHANGED <<threadsByWorkspace, pinnedThreads>>]_vars

\* C27 witness: the archive of a removed thread has failed, and the thread
\* is out of the list and unpinned.
C27_RemovedThoughArchiveFailed ==
  /\ archives["s1"] = "failed"
  /\ "s1" \notin ThreadIdsOf(Get(threadsByWorkspace, "W", <<>>))
  /\ "s1" \notin pinnedThreads
  /\ "n1" \in pinnedThreads

\* ---------------------------------------------------------------------
\* C28: the deltas of one assistant message and the message event that
\* completes it are all translated with the same item id.
ItemIdOf(ev) ==
  IF ev.method = "item/agentMessage/delta" THEN ev.params.itemId ELSE ev.params.item.id

C28_OneItemPerMessage ==
  \A i, j \in 1..Len(emitted) : ItemIdOf(emitted[i].ev) = ItemIdOf(emitted[j].ev)

\* ---------------------------------------------------------------------
\* C29: a stdout line that is not valid JSON is dropped without ending the
\* reader: it changes neither the stored responses, the notifications nor
\* where main() stands, and every well-formed line, before or after it, has
\* been dispatched: the response stored under a key is the last one read
\* with that key, and the notifications are those read, in order.
LineArrived == Len(transcript') = Len(transcript) + 1
ArrivedLine == transcript'[Len(transcript')]

CarriesResultOrError(value) == value.type = "object" /\ value.id # NoMsgId /\ value.body # "none"
CarriesMethodOnly(value) ==
  value.type = "object" /\ value.method # Undefined /\ ~CarriesResultOrError(value)

ResponseLines(key) ==
  {i \in 1..Len(transcript) :
     /\ transcript[i].json
     /\ CarriesResultOrError(transcript[i].value)
     /\ Digits[transcript[i].value.id.v + 1] = key}
LastOf(S) == CHOOSE i \in S : \A j \in S : j <= i

RECURSIVE NotificationsIn(_)
NotificationsIn(lines) ==
  IF lines = <<>> THEN <<>>
  ELSE LET rest == NotificationsIn(SubSeq(lines, 1, Len(lines) - 1))
           line == lines[Len(lines)]
       IN IF line.json /\ CarriesMethodOnly(line.value) THEN Append(rest, line.value) ELSE rest

WellFormedLinesDispatched ==
  /\ \A key \in IdKeys :
       pendingById[key] =
         IF ResponseLines(key) = {} THEN NoResponse
         ELSE transcript[LastOf(ResponseLines(key))].value
  /\ notifications = NotificationsIn(transcript)

MalformedLineDropped ==
  (LineArrived /\ ~ArrivedLine.json) =>
    /\ pendingById' = pendingById
    /\ notifications' = notifications
    /\ sentIds' = sentIds
    /\ smokePc' = smokePc

C29_MalformedLineSkipped == []WellFormedLinesDispatched /\ [][MalformedLineDropped]_vars

\* C29 witness: a line that is not JSON was read while initialize was
\* pending, the response read after it was stored, and main() went on to
\* session/new.
C29_ResponseReadAfterMalformedLine ==
  /\ Len(transcript) = 2
  /\ ~transcript[1].json
  /\ transcript[2].json
  /\ pendingById[Digits[initId + 1]] = transcript[2].value
  /\ smokePc = "session/new"

\* ---------------------------------------------------------------------
\* C30: the request ids sent are strictly increasing; a request is resolved
\* only by a stored inbound message that carries its id with a result or an
\* error; an inbound message with a method and without result or error is
\* appended to the notifications and changes no stored response and no
\* request.  Ids are compared as the script compares them, by String(id).
IdsStrictlyIncreasing ==
  \A i, j \in 1..Len(sentIds) : i < j => sentIds[i] < sentIds[j]

StoredUnderOwnId ==
  \A key \in IdKeys :
    pendingById[key] # NoResponse =>
      /\ CarriesResultOrError(pendingById[key])
      /\ Digits[pendingById[key].id.v + 1] = key
      /\ \E i \in 1..Len(transcript) : transcript[i].json /\ transcript[i].value = pendingById[key]

ResolvedOnlyByOwnResponse ==
  (smokePc \in Waiting /\ smokePc' = NextRequest(smokePc)) =>
    LET resp == pendingById[Digits[RequestId(smokePc) + 1]] IN
      /\ resp # NoResponse
      /\ resp.id.v = RequestId(smokePc)
      /\ resp.body = "result"

MethodRecordedAsNotification ==
  (LineArrived /\ ArrivedLine.json /\ CarriesMethodOnly(ArrivedLine.value)) =>
    /\ notifications' = Append(notifications, ArrivedLine.value)
    /\ pendingById' = pendingById
    /\ smokePc' = smokePc

C30_RequestsMatchedById ==
  /\ [](IdsStrictlyIncreasing /\ StoredUnderOwnId)
  /\ [][ResolvedOnlyByOwnResponse /\ MethodRecordedAsNotification]_vars

\* C30 witness: all three requests were sent, the first two answered, while
\* a request of the agent that bears the id of session/new was read and
\* recorded as a notification.
C30_AllAnsweredBesideAgentRequest ==
  /\ smokePc = "session/prompt"
  /\ sentIds = <<initId, newId, promptId>>
  /\ \E i \in 1..Len(notifications) : notifications[i].id = NumId(newId)
  /\ pendingById[Digits[newId + 1]].body = "result"

\* ---------------------------------------------------------------------
\* C31: in every disconnectWorkspace of a connected workspace with a
\* session, the session destroy is awaited first and client.stop() is
\* called after it, also when the destroy fails: a call that awaits the
\* destroy goes on to await the stop.
C31_StopAfterFailedDestroy ==
  [][\A k \in CallIds :
       calls[k].pc = "d_destroy" => calls'[k].pc \in {"d_destroy", "d_stop"}]_vars

\* ---------------------------------------------------------------------
\* C32: one sendUserMessage and the backend's events of that turn
\* (assistant.turn_start, assistant.turn_end, session.idle, each once)
\* produce at most one turn/started and at most one turn/completed.
Emitted(method) == {i \in 1..Len(emitted) : emitted[i].ev.method = method}
ReceivedOfType(type) == {i \in 1..Len(received) : received[i].event.type = type}
OneTurn ==
  /\ Cardinality({i \in 1..Len(emitted) : emitted[i].src = 0}) = 1
  /\ \A event \in TurnEvents : Cardinality(ReceivedOfType(event.type)) <= 1

C32_OneStartOneCompletionPerTurn ==
  OneTurn => /\ Cardinality(Emitted("turn/started")) <= 1
             /\ Cardinality(Emitted("turn/completed")) <= 1

\* ---------------------------------------------------------------------
\* C36: sendUserMessage(W, T, text) delivers the prompt only to the
\* backend session whose id is T.
C36_PromptReachesThreadT ==
  [][\A t \in TurnThreads :
       TurnSend(t) => \A s \in SessionIds : backendLog'[s] # backendLog[s] => s = t]_vars

\* ---------------------------------------------------------------------
\* C37: when sendUserMessage fails, the call has either emitted no
\* turn/started for the thread or emitted a terminal event for the thread
\* after it.
Unterminated(t) ==
  \E i \in 1..Len(emitted) :
    /\ emitted[i].ev.method = "turn/started"
    /\ EventThread(emitted[i].ev) = t
    /\ \A j \in (i + 1)..Len(emitted) :
         ~(IsTerminal(emitted[j].ev) /\ EventThread(emitted[j].ev) = t)

C37_FailedSendLeavesNoOpenTurn ==
  [][\A t \in TurnThreads :
       (TurnSend(t) /\ lastSend' = "NoSession" /\ ~Unterminated(t)) => ~Unterminated(t)']_vars

\* ---------------------------------------------------------------------
\* C33: when the exit of a detached review R is handled for its parent P
\* (R has a parent other than itself, and P is Reviewing), P's unread flag
\* is set if P is not the active thread and no other flag changes; when P
\* is the active thread, no unread flag changes.
ExitHandledFor(R) ==
  /\ ReviewExited(R)
  /\ threadParentById[R] \notin {NoId, R}
  /\ threadStatusById[threadParentById[R]].isReviewing

C33_UnreadIffNotActive ==
  [][\A R \in ReviewThreads :
       ExitHandledFor(R) =>
         LET P == threadParentById[R] IN
           IF P # activeThreadIdByWorkspace["W"]
           THEN unreadByThread' = [unreadByThread EXCEPT ![P] = TRUE]
           ELSE unreadByThread' = unreadByThread]_vars

\* C33 witness: the review of the active thread s1 has exited and been
\* handled (its notice is there), and s1 is still not unread.
C33_ActiveParentStaysRead ==
  /\ activeThreadIdByWorkspace["W"] = "s1"
  /\ \E R \in reviewExits :
       /\ threadParentById[R] = "s1"
       /\ NoticeKey("s1", R) \in detachedReviewNoticeRef
  /\ ~threadStatusById["s1"].isReviewing
  /\ ~unreadByThread["s1"]

\* ---------------------------------------------------------------------
\* C39: handling the review exit of a thread that has no parent, is its
\* own parent, or whose parent is not Reviewing changes no status, no
\* active turn id, no item log, no unread flag, no recorded activity and
\* no notice key.
ExitNotHandledFor(R) ==
  /\ ReviewExited(R)
  /\ \/ threadParentById[R] \in {NoId, R}
     \/ ~threadStatusById[threadParentById[R]].isReviewing

C39_UnhandledExitChangesNothing ==
  [][\A R \in ReviewThreads :
       ExitNotHandledFor(R) =>
         UNCHANGED <<threadStatusById, activeTurnIdByThread, itemsByThread, unreadByThread,
                     threadActivity, detachedReviewNoticeRef>>]_vars

\* C39 witness: the exit of n1, a Reviewing thread that is its own parent,
\* has been handled and n1 is still Reviewing, with nothing recorded.
C39_SelfParentExitIgnored ==
  /\ "n1" \in reviewExits
  /\ threadParentById["n1"] = "n1"
  /\ threadStatusById["n1"].isReviewing
  /\ threadActivity["n1"] = NoTimestamp
  /\ ~unreadByThread["n1"]

\* ---------------------------------------------------------------------
\* C34: however the stream is split into chunks, the lines delivered are
\* exactly the newline-terminated pieces of the joined stream, trimmed,
\* without the empty ones, each once and in stream order; a piece whose
\* newline has not arrived is not delivered but kept in the buffer.
NewlinesOf(text) == {i \in 1..Len(text) : text[i] = Newline}
PieceEndingAt(text, i) ==
  LET before == {j \in NewlinesOf(text) : j < i}
      start == IF before = {} THEN 1 ELSE (CHOOSE j \in before : \A k \in before : k <= j) + 1
  IN SubSeq(text, start, i - 1)
Stripped(text) ==
  LET inked == {i \in 1..Len(text) : text[i] \notin Whitespace} IN
  IF inked = {} THEN <<>>
  ELSE SubSeq(text, CHOOSE i \in inked : \A j \in inked : i <= j,
                    CHOOSE i \in inked : \A j \in inked : j <= i)
RECURSIVE LinesUpTo(_, _)
LinesUpTo(text, n) ==
  IF n = 0 THEN <<>>
  ELSE IF text[n] # Newline THEN LinesUpTo(text, n - 1)
  ELSE IF Stripped(PieceEndingAt(text, n)) = <<>> THEN LinesUpTo(text, n - 1)
  ELSE Append(LinesUpTo(text, n - 1), Stripped(PieceEndingAt(text, n)))
UnterminatedTail(text) ==
  LET nls == NewlinesOf(text) IN
  IF nls = {} THEN text
  ELSE SubSeq(text, (CHOOSE j \in nls : \A k \in nls : k <= j) + 1, Len(text))

C34_LinesWhateverTheChunks ==
  /\ delivered = LinesUpTo(streamRead, Len(streamRead))
  /\ buffer = UnterminatedTail(streamRead)

\* C34 witness: the line "ab", with a blank before it, arrived one
\* character a chunk and was delivered once, after its newline.
C34_SplitLineDeliveredOnce ==
  /\ chunksRead = 4
  /\ streamRead = <<" ", "a", "b", Newline>>
  /\ delivered = <<(<<"a", "b">>)>>
  /\ buffer = <<>>

\* ---------------------------------------------------------------------
\* C35: an event is forwarded to the global callback only from the
\* session the workspace currently holds: once a session has been
\* replaced or destroyed, or its workspace disconnected, none of its events
\* is forwarded.
CurrentSession(h) ==
  /\ workspaceClients["W"] # 0
  /\ wsSession[workspaceClients["W"]] = h

C35_OnlyCurrentSessionForwards ==
  [][\A h \in Handles, event \in RoutedEvents :
       (SessionDelivers(h, event) /\ emitted' # emitted) => CurrentSession(h)]_vars

\* ---------------------------------------------------------------------
\* C38: archiving thread T destroys only the backend session whose id is
\* T: when the destroy requested for T completes, the session destroyed
\* has the id T.
C38_ArchiveDestroysOnlyT ==
  [][\A k \in CallIds :
       (DestroyReturns(k) /\ calls[k].sid # NoId) =>
         sessions[calls[k].h].sid = calls[k].sid]_vars


\* C40: the merge of a loaded snapshot sets the active thread of the
\* workspace from the snapshot only when none is set at the time of the
\* merge; an active thread that is set then, one chosen while the load was
\* in flight included, is the active thread after the merge.
C40_MergeKeepsActiveThread ==
  [][HistoryLoadReturns =>
       (activeThreadIdByWorkspace["W"] # NoId =>
          activeThreadIdByWorkspace'["W"] = activeThreadIdByWorkspace["W"])]_vars

====
